---- MODULE Spec2Model ----
(***************************************************************************)
(* Veil: the policy resolution core (pattern matcher, rule evaluator,      *)
(* command normalizer, file / env / cli engines).                          *)
(*                                                                         *)
(* Text that the code scans character by character (commands, paths, env   *)
(* keys and values, string patterns, replacements) is a tuple of           *)
(* one-character strings, so that includes(), trim(), indexing, length and *)
(* the regular expressions are computed as the code computes them.  Text   *)
(* that the code only copies, tests for emptiness or concatenates (rule    *)
(* reasons, policy references, normalization notes) is a TLA+ string.      *)
(* A JavaScript optional field is a record field that is present or not.   *)
(* The alphabet holds no line terminator, so "." matches every character.  *)
(***************************************************************************)
EXTENDS Integers, Sequences, FiniteSets, TLC

VARIABLES
    rules,      \* the rule list the engine was created with
    options,    \* CliEngineOptions.bypassProtection / NormalizeOptions
    injectors,  \* VeilInjectors given to the file / env engine
    env,        \* process.env
    ruleRegistry,        \* rules/registry.ts: the module-level Map id -> VeilRule
    allRulesRegistered,  \* rules/registry.ts: the lazy-registration flag
    registrars,          \* rules/registry.ts: whether platformRegistrar and
                         \* modalRegistrar are set
    veils,      \* veil.ts: the Veil instances in use, the first created first,
                \* each with its rule lists and its intercept log
    call,       \* the operation in progress and its arguments
    ret         \* what the operation returned

vars == <<rules, options, injectors, env, ruleRegistry, allRulesRegistered, registrars,
         veils, call, ret>>

\* What an engine instance is created with, and the module state of the rule
\* registry: no engine operation assigns any of it.
created == <<rules, options, injectors, env, ruleRegistry, allRulesRegistered, registrars,
            veils>>

\* The registrars once the modules are loaded: platform.ts sets the platform
\* registrar when it is imported; nothing sets the modal registrar.
LoadedRegistrars == [platform |-> TRUE, modal |-> FALSE]

\* The value of an absent result, argument or JavaScript null.
Null == [null |-> TRUE]

\* No operation in progress.
Idle == [op |-> "idle"]

-----------------------------------------------------------------------------
(* Characters and String.prototype helpers *)

\* \s restricted to the alphabet: space and tab.
WhiteSpace == {" ", "\t"}

\* \w : [A-Za-z0-9_]
WordChars ==
    {"a","b","c","d","e","f","g","h","i","j","k","l","m",
     "n","o","p","q","r","s","t","u","v","w","x","y","z",
     "A","B","C","D","E","F","G","H","I","J","K","L","M",
     "N","O","P","Q","R","S","T","U","V","W","X","Y","Z",
     "0","1","2","3","4","5","6","7","8","9","_"}

\* ["']
QuoteChars == {"\"", "'"}

\* [\w\-.]
PathSegmentChars == WordChars \cup {"-", "."}

\* const v = e; then body(v): e is evaluated once and v holds its value.
With(e, body(_)) == CHOOSE r \in {body(v) : v \in {e}} : TRUE

SetMin(S) == CHOOSE x \in S : \A y \in S : x <= y

SetMax(S) == CHOOSE x \in S : \A y \in S : x >= y

\* s.slice(n)
Drop(s, n) == SubSeq(s, n + 1, Len(s))

\* String.prototype.trim
Trim(s) ==
    With({i \in 1..Len(s) : s[i] \notin WhiteSpace}, LAMBDA keep :
        IF keep = {} THEN <<>> ELSE SubSeq(s, SetMin(keep), SetMax(keep)))

\* s.startsWith(p)
StartsWith(s, p) == Len(p) <= Len(s) /\ SubSeq(s, 1, Len(p)) = p

\* String.prototype.includes
Includes(s, p) ==
    \E i \in 0..(Len(s) - Len(p)) : SubSeq(s, i + 1, i + Len(p)) = p

\* The first index >= i of s whose character is not in class, Len(s) + 1 if none.
SkipWhile(s, i, class) ==
    With({j \in i..Len(s) : s[j] \notin class}, LAMBDA stop :
        IF stop = {} THEN Len(s) + 1 ELSE SetMin(stop))

\* "*".repeat(n)
RECURSIVE Repeat(_, _)
Repeat(ch, n) == IF n <= 0 THEN <<>> ELSE <<ch>> \o Repeat(ch, n - 1)

-----------------------------------------------------------------------------
(* normalize.ts: the four patterns.  Every call site applies them to a     *)
(* trimmed string or to a prefix test anchored at ^.                       *)

ShellBash == <<"b","a","s","h">>
ShellSh == <<"s","h">>
ShellZsh == <<"z","s","h">>
ShellDash == <<"d","a","s","h">>
ShellKsh == <<"k","s","h">>
ShellCsh == <<"c","s","h">>
ShellTcsh == <<"t","c","s","h">>
ShellFish == <<"f","i","s","h">>
DashC == <<"-","c">>
EvalWord == <<"e","v","a","l">>
RunnerNpx == <<"n","p","x">>
RunnerPnpx == <<"p","n","p","x">>
RunnerBunx == <<"b","u","n","x">>
RunnerYarn == <<"y","a","r","n">>
RunnerDlx == <<"d","l","x">>

\* (?:bash|sh|zsh|dash|ksh|csh|tcsh|fish)
ShellNames ==
    {ShellBash, ShellSh, ShellZsh, ShellDash, ShellKsh, ShellCsh, ShellTcsh, ShellFish}

NoMatch == [matched |-> FALSE]

Matched(group) == [matched |-> TRUE, group |-> group]

\* ^word\s+ : the index of the first character after the white space, 0 if
\* s does not start with word followed by white space.
AfterWord(s, word) ==
    IF StartsWith(s, word) /\ Len(s) > Len(word) /\ s[Len(word) + 1] \in WhiteSpace
    THEN SkipWhile(s, Len(word) + 1, WhiteSpace)
    ELSE 0

\* ^(?:bash|sh|...)\s+ : as AfterWord, for the shell name s starts with.
AfterShellName(s) ==
    With({AfterWord(s, n) : n \in ShellNames} \ {0}, LAMBDA hits :
        IF hits = {} THEN 0 ELSE SetMax(hits))

\* One -\w+\s+ at index i: the index after its white space, 0 if there is none.
AfterFlag(s, i) ==
    IF i <= Len(s) /\ s[i] = "-"
    THEN With(SkipWhile(s, i + 1, WordChars), LAMBDA w :
             IF w > i + 1 /\ w <= Len(s) /\ s[w] \in WhiteSpace
             THEN SkipWhile(s, w, WhiteSpace)
             ELSE 0)
    ELSE 0

\* (?:-\w+\s+)* from index i, greedy: the start indices of the flags of the
\* longest run, in order.
RECURSIVE FlagRun(_, _)
FlagRun(s, i) ==
    With(AfterFlag(s, i), LAMBDA next :
        IF next = 0 THEN <<>> ELSE <<i>> \o FlagRun(s, next))

\* The start indices in s of the flags of the run that read exactly -c.
DashCFlags(s, run) ==
    {run[k] : k \in {j \in 1..Len(run) : SubSeq(s, run[j], run[j] + 1) = DashC
                                          /\ s[run[j] + 2] \in WhiteSpace}}

\* (?:-\w+\s+)*-c\s+ from index i: the index after it, 0 if it does not match.
\* The star is greedy and backtracks, so the -c taken is the last flag of
\* the run that reads -c.
AfterDashC(s, i) ==
    IF i = 0 THEN 0
    ELSE With(FlagRun(s, i), LAMBDA run :
         With(DashCFlags(s, run), LAMBDA cs :
             IF cs = {} THEN 0 ELSE AfterFlag(s, SetMax(cs))))

\* ["'](.+?)["']\s*$ from index i of a trimmed s: the lazy group runs to
\* the last character, which has to be a quote.
QuotedTail(s, i) ==
    IF i >= 1 /\ i + 2 <= Len(s) /\ s[i] \in QuoteChars /\ s[Len(s)] \in QuoteChars
    THEN Matched(SubSeq(s, i + 1, Len(s) - 1))
    ELSE NoMatch

\* (.+)$ from index i.
RestTail(s, i) ==
    IF i >= 1 /\ i <= Len(s) THEN Matched(Drop(s, i - 1)) ELSE NoMatch

\* ^(?:bash|sh|...)\s+(?:-\w+\s+)*-c\s+ : the index after it, 0 if no match.
ShellWrapperHead(s) == With(AfterShellName(s), LAMBDA i : AfterDashC(s, i))

\* SHELL_WRAPPER_PATTERNS[0]
ShellWrapperQuoted(s) == With(ShellWrapperHead(s), LAMBDA i : QuotedTail(s, i))

\* SHELL_WRAPPER_PATTERNS[1]
ShellWrapperUnquoted(s) == With(ShellWrapperHead(s), LAMBDA i : RestTail(s, i))

\* for (const pattern of SHELL_WRAPPER_PATTERNS): the first pattern that matches.
SHELL_WRAPPER_PATTERNS(s) ==
    With(ShellWrapperQuoted(s), LAMBDA quoted :
        IF quoted.matched THEN quoted ELSE ShellWrapperUnquoted(s))

\* EVAL_PATTERNS[0]
EvalQuoted(s) == With(AfterWord(s, EvalWord), LAMBDA i : QuotedTail(s, i))

\* EVAL_PATTERNS[1]
EvalUnquoted(s) == With(AfterWord(s, EvalWord), LAMBDA i : RestTail(s, i))

\* for (const pattern of EVAL_PATTERNS): the first pattern that matches.
EVAL_PATTERNS(s) ==
    With(EvalQuoted(s), LAMBDA quoted :
        IF quoted.matched THEN quoted ELSE EvalUnquoted(s))

\* (\/[\w\-.]+)+ from index i, greedy: the index after the last segment.
RECURSIVE AfterSegments(_, _)
AfterSegments(s, i) ==
    IF i < Len(s) /\ s[i] = "/" /\ s[i + 1] \in PathSegmentChars
    THEN With(SkipWhile(s, i + 1, PathSegmentChars), LAMBDA next :
             AfterSegments(s, next))
    ELSE i

\* ABSOLUTE_PATH_PATTERN = /^(\/[\w\-.]+)+\// : the length of the match, 0
\* if there is none.  When the last segment is not followed by "/", the
\* group gives that segment back and the match ends at the "/" before it.
ABSOLUTE_PATH_PATTERN(s) ==
    With(AfterSegments(s, 1), LAMBDA e :
        IF e = 1 THEN 0
        ELSE IF e <= Len(s) /\ s[e] = "/" THEN e
        ELSE With({j \in 2..(e - 1) : s[j] = "/"}, LAMBDA slashes :
                 IF slashes = {} THEN 0 ELSE SetMax(slashes)))

\* PACKAGE_RUNNER_PATTERN = /^(?:npx|pnpx|yarn\s+dlx|bunx)\s+/ : the length
\* of the match, 0 if there is none.
PACKAGE_RUNNER_PATTERN(s) ==
    With(AfterWord(s, RunnerYarn), LAMBDA yarn :
    With(IF yarn = 0 THEN 0
         ELSE With(Drop(s, yarn - 1), LAMBDA rest : AfterWord(rest, RunnerDlx)),
         LAMBDA dlx :
    With(({AfterWord(s, r) : r \in {RunnerNpx, RunnerPnpx, RunnerBunx}}
          \cup {IF dlx = 0 THEN 0 ELSE yarn - 1 + dlx}) \ {0}, LAMBDA hits :
        IF hits = {} THEN 0 ELSE SetMax(hits) - 1)))

-----------------------------------------------------------------------------
(* normalize.ts: normalizeCommand *)

OptionFields == {"stripPaths", "unwrapShells", "unwrapEval", "stripPackageRunners"}

DEFAULT_OPTIONS == [f \in OptionFields |-> TRUE]

\* The cap of the shell-unwrap loop.
maxIterations == 5

\* addVariant: push the trimmed text unless it is empty or already seen.
addVariantNoEmptyTest(variants, cmd) ==
    With(Trim(cmd), LAMBDA trimmed :
        IF ~\E i \in 1..Len(variants) : variants[i] = trimmed
        THEN Append(variants, trimmed)
        ELSE variants)

addVariant(variants, cmd) ==
    With(Trim(cmd), LAMBDA trimmed :
        IF trimmed # <<>> /\ ~\E i \in 1..Len(variants) : variants[i] = trimmed
        THEN Append(variants, trimmed)
        ELSE variants)

\* A loop that runs until no pattern matches, whatever the iteration count.
RECURSIVE UnwrapShellsUncapped(_, _)
UnwrapShellsUncapped(st, iterations) ==
    With(SHELL_WRAPPER_PATTERNS(st.current), LAMBDA match :
        IF match.matched
        THEN With(Trim(match.group), LAMBDA current :
             With([variants |-> addVariant(st.variants, current),
                   current |-> current], LAMBDA next :
                 UnwrapShellsUncapped(next, iterations + 1)))
        ELSE st)

\* The while loop over SHELL_WRAPPER_PATTERNS, entered with iterations done.
RECURSIVE UnwrapShells(_, _)
UnwrapShells(st, iterations) ==
    IF iterations < maxIterations
    THEN With(SHELL_WRAPPER_PATTERNS(st.current), LAMBDA match :
             IF match.matched
             THEN With(Trim(match.group), LAMBDA current :
                  With([variants |-> addVariant(st.variants, current),
                        current |-> current], LAMBDA next :
                      UnwrapShells(next, iterations + 1)))
             ELSE st)
    ELSE st

\* An eval stage that adds the variant and goes on from the text it was
\* entered with.
UnwrapEvalKeepCurrent(st) ==
    With(EVAL_PATTERNS(st.current), LAMBDA match :
        IF match.matched
        THEN [variants |-> addVariant(st.variants, Trim(match.group)),
              current |-> st.current]
        ELSE st)

\* The for loop over EVAL_PATTERNS.
UnwrapEval(st) ==
    With(EVAL_PATTERNS(st.current), LAMBDA match :
        IF match.matched
        THEN With(Trim(match.group), LAMBDA current :
                 [variants |-> addVariant(st.variants, current), current |-> current])
        ELSE st)

\* Strip absolute paths: current becomes the stripped text, untrimmed.
StripPathsKeepCurrent(st) ==
    With(ABSOLUTE_PATH_PATTERN(st.current), LAMBDA n :
        IF n > 0
        THEN With(Drop(st.current, n), LAMBDA stripped :
                 [variants |-> addVariant(st.variants, stripped), current |-> st.current])
        ELSE st)

StripPaths(st) ==
    With(ABSOLUTE_PATH_PATTERN(st.current), LAMBDA n :
        IF n > 0
        THEN With(Drop(st.current, n), LAMBDA stripped :
                 [variants |-> addVariant(st.variants, stripped), current |-> stripped])
        ELSE st)

\* Strip package runners: the last stage, current is not used after it.
StripPackageRunners(st) ==
    With(PACKAGE_RUNNER_PATTERN(st.current), LAMBDA n :
        IF n > 0
        THEN With(Drop(st.current, n), LAMBDA stripped :
                 [variants |-> addVariant(st.variants, stripped), current |-> st.current])
        ELSE st)

\* { ...DEFAULT_OPTIONS, ...options }
MergeOptions(given) == given @@ DEFAULT_OPTIONS

normalizeCommand(command, given) ==
    With(MergeOptions(given), LAMBDA opts :
    With([variants |-> addVariant(<<>>, command), current |-> Trim(command)], LAMBDA s0 :
    With(IF opts.unwrapShells THEN UnwrapShells(s0, 0) ELSE s0, LAMBDA s1 :
    With(IF opts.unwrapEval THEN UnwrapEval(s1) ELSE s1, LAMBDA s2 :
    With(IF opts.stripPaths THEN StripPaths(s2) ELSE s2, LAMBDA s3 :
    With(IF opts.stripPackageRunners THEN StripPackageRunners(s3) ELSE s3, LAMBDA s4 :
        s4.variants))))))

-----------------------------------------------------------------------------
(* normalize.ts: describeNormalization *)

\* descriptions.join(", ")
RECURSIVE Join(_)
Join(descriptions) ==
    IF Len(descriptions) = 1 THEN descriptions[1]
    ELSE descriptions[1] \o ", " \o Join(Tail(descriptions))

\* null when the two are equal after trimming, otherwise [text |-> the note].
describeNormalization(original, normalized) ==
    With(Trim(original), LAMBDA o :
    With(Trim(normalized), LAMBDA n :
        IF o = n THEN Null
        ELSE With((IF ShellWrapperQuoted(o).matched \/ ShellWrapperUnquoted(o).matched
                   THEN <<"subshell wrapper stripped">> ELSE <<>>)
                  \o (IF EvalQuoted(o).matched \/ EvalUnquoted(o).matched
                      THEN <<"eval wrapper stripped">> ELSE <<>>)
                  \o (IF ABSOLUTE_PATH_PATTERN(o) > 0 /\ ABSOLUTE_PATH_PATTERN(n) = 0
                      THEN <<"absolute path stripped">> ELSE <<>>)
                  \o (IF PACKAGE_RUNNER_PATTERN(o) > 0 /\ PACKAGE_RUNNER_PATTERN(n) = 0
                      THEN <<"package runner stripped">> ELSE <<>>),
                  LAMBDA descriptions :
                      [text |-> IF Len(descriptions) > 0 THEN Join(descriptions)
                                ELSE "command normalized"])))

-----------------------------------------------------------------------------
(* matching.ts *)

\* A rule's match: a string, or a RegExp without flags whose source is a
\* literal text with an optional ^ and an optional $.
StringPattern(text) == [kind |-> "string", text |-> text]

RegExpPattern(anchorStart, text, anchorEnd) ==
    [kind |-> "regexp", text |-> text, anchorStart |-> anchorStart, anchorEnd |-> anchorEnd]

\* s.endsWith(p)
EndsWith(s, p) == Len(p) <= Len(s) /\ Drop(s, Len(s) - Len(p)) = p

\* RegExp.prototype.test for the patterns above.
RegExpTest(pattern, target) ==
    CASE pattern.anchorStart /\ pattern.anchorEnd -> target = pattern.text
      [] pattern.anchorStart -> StartsWith(target, pattern.text)
      [] pattern.anchorEnd -> EndsWith(target, pattern.text)
      [] OTHER -> Includes(target, pattern.text)

matchesPattern(target, pattern) ==
    IF pattern.kind = "string"
    THEN target = pattern.text \/ Includes(target, pattern.text)
    ELSE RegExpTest(pattern, target)

\* The for loop of findMatchingRule from TLA+ index i (JavaScript index i - 1).
RECURSIVE FindFrom(_, _, _)
FindFrom(target, ruleList, i) ==
    IF i > Len(ruleList) THEN Null
    ELSE IF matchesPattern(target, ruleList[i].match)
         THEN [rule |-> ruleList[i], index |-> i - 1]
         ELSE FindFrom(target, ruleList, i + 1)

\* A scan that keeps the last match instead of returning at the first.
findMatchingRuleLast(target, ruleList) ==
    With({i \in 1..Len(ruleList) : matchesPattern(target, ruleList[i].match)},
         LAMBDA hits :
             IF hits = {} THEN Null
             ELSE [rule |-> ruleList[SetMax(hits)], index |-> SetMax(hits) - 1])

findMatchingRule(target, ruleList) == FindFrom(target, ruleList, 1)

getRuleTypeName(rule) ==
    IF "safeAlternatives" \in DOMAIN rule THEN "cliRules" ELSE "rules"

evaluateRules(target, ruleList) ==
    With(findMatchingRule(target, ruleList), LAMBDA match :
        IF match = Null THEN Null
        ELSE [action |-> match.rule.action,
              rule |-> match.rule,
              policyRef |-> getRuleTypeName(match.rule) \o "["
                            \o ToString(match.index) \o "]"])

\* The JavaScript values undefined, null and true where a text may stand:
\* a tuple no text equals (a text is a tuple of one-character strings).
JsUndefined == <<"undefined">>
JsNull == <<"null">>
JsTrue == <<"true">>

\* rule.replacement, undefined when the rule has none.
ReplacementOf(rule) ==
    IF "replacement" \in DOMAIN rule THEN rule.replacement ELSE JsUndefined

applyMaskUncapped(value, replacement) ==
    IF replacement # JsUndefined THEN replacement
    ELSE IF Len(value) <= 4 THEN <<"*", "*", "*", "*">>
    ELSE <<value[1]>> \o Repeat("*", Len(value) - 2) \o <<value[Len(value)]>>

\* A default mask whose run of asterisks is one longer than the interior.
applyMaskLongInterior(value, replacement) ==
    IF replacement # JsUndefined THEN replacement
    ELSE IF Len(value) <= 4 THEN <<"*", "*", "*", "*">>
    ELSE <<value[1]>>
         \o Repeat("*", IF Len(value) - 1 < 8 THEN Len(value) - 1 ELSE 8)
         \o <<value[Len(value)]>>

applyMask(value, replacement) ==
    IF replacement # JsUndefined THEN replacement
    ELSE IF Len(value) <= 4 THEN <<"*", "*", "*", "*">>
    ELSE <<value[1]>>
         \o Repeat("*", IF Len(value) - 2 < 8 THEN Len(value) - 2 ELSE 8)
         \o <<value[Len(value)]>>

-----------------------------------------------------------------------------
(* cli-engine.ts *)

\* CliEngineOptions.bypassProtection: undefined, a boolean, or an object
\* that sets some of the four options.
BypassUndefined == [kind |-> "undefined"]

BypassBoolean(b) == [kind |-> "boolean", value |-> b]

BypassObject(o) == [kind |-> "object", value |-> o]

\* null (normalization disabled) or the NormalizeOptions.
getBypassOptions(config) ==
    CASE config.kind = "undefined" -> DEFAULT_OPTIONS
      [] config.kind = "boolean" -> IF config.value THEN DEFAULT_OPTIONS ELSE Null
      [] OTHER -> [f \in OptionFields |->
                      IF f \in DOMAIN config.value THEN config.value[f] ELSE TRUE]

\* const variants = bypassOptions ? normalizeCommand(...) : [command.trim()]
Variants(command, config) ==
    With(getBypassOptions(config), LAMBDA bypassOptions :
        IF bypassOptions # Null
        THEN normalizeCommand(command, bypassOptions)
        ELSE <<Trim(command)>>)

\* The text appended to a deny / mask reason (the code starts it with a
\* warning sign, left out here).
BypassNote(note) == "\n\nBypass attempt detected: " \o note

\* A reason that never carries the bypass note.
BlockReasonNoNote(rule, normalizationNote) ==
    IF "reason" \in DOMAIN rule THEN rule.reason ELSE "command_denied_by_policy"

\* rule.reason ?? "command_denied_by_policy", with the bypass note.
BlockReason(rule, normalizationNote) ==
    LET reason == IF "reason" \in DOMAIN rule THEN rule.reason
                  ELSE "command_denied_by_policy"
    IN  IF normalizationNote # Null /\ normalizationNote.text # ""
        THEN reason \o BypassNote(normalizationNote.text)
        ELSE reason

\* The deny and the mask case: the same result.
BlockedCommand(command, rule, normalizationNote) ==
    With([ok |-> FALSE, blocked |-> TRUE, type |-> "cli",
          reason |-> BlockReason(rule, normalizationNote), command |-> command],
         LAMBDA result :
             IF "safeAlternatives" \in DOMAIN rule
             THEN result @@ [safeAlternatives |-> rule.safeAlternatives]
             ELSE result)

\* An allow result that carries the trimmed command.
AllowedCommandTrimmed(command, rule) ==
    IF "reason" \in DOMAIN rule /\ rule.reason # ""
    THEN [ok |-> TRUE, command |-> Trim(command), context |-> rule.reason]
    ELSE [ok |-> TRUE, command |-> Trim(command)]

\* The allow case: the command as passed, if (rule.reason) the context.
AllowedCommand(command, rule) ==
    IF "reason" \in DOMAIN rule /\ rule.reason # ""
    THEN [ok |-> TRUE, command |-> command, context |-> rule.reason]
    ELSE [ok |-> TRUE, command |-> command]

\* The switch of checkCommand, for the rule that matched variant.
CliOutcome(command, variant, rule) ==
    With(IF variant # Trim(command) THEN describeNormalization(command, variant)
         ELSE Null, LAMBDA normalizationNote :
        CASE rule.action = "allow" -> AllowedCommand(command, rule)
          [] rule.action = "deny" -> BlockedCommand(command, rule, normalizationNote)
          [] rule.action = "rewrite" ->
               [ok |-> TRUE,
                command |-> IF "replacement" \in DOMAIN rule THEN rule.replacement
                            ELSE command]
          [] rule.action = "mask" -> BlockedCommand(command, rule, normalizationNote))

\* for (const variant of variants), from index i.
RECURSIVE CheckVariants(_, _, _, _)
CheckVariants(command, variants, ruleList, i) ==
    IF i > Len(variants) THEN [ok |-> TRUE, command |-> command]
    ELSE With(evaluateRules(variants[i], ruleList), LAMBDA result :
             IF result # Null
             THEN CliOutcome(command, variants[i], result.rule)
             ELSE CheckVariants(command, variants, ruleList, i + 1))

\* The loops swapped: every variant is tried against rule 0, then rule 1, ...
RECURSIVE CheckRulesFirst(_, _, _, _)
CheckRulesFirst(command, variants, ruleList, r) ==
    IF r > Len(ruleList) THEN [ok |-> TRUE, command |-> command]
    ELSE With({i \in 1..Len(variants) : matchesPattern(variants[i], ruleList[r].match)},
              LAMBDA hits :
                  IF hits # {}
                  THEN CliOutcome(command, variants[SetMin(hits)], ruleList[r])
                  ELSE CheckRulesFirst(command, variants, ruleList, r + 1))

checkCommandRulesFirst(command, ruleList, config) ==
    With(Variants(command, config), LAMBDA variants :
        CheckRulesFirst(command, variants, ruleList, 1))

checkCommand(command, ruleList, config) ==
    With(Variants(command, config), LAMBDA variants :
        CheckVariants(command, variants, ruleList, 1))

isAllowed(command, ruleList, config) == checkCommand(command, ruleList, config).ok

\* null for a blocked command, otherwise result.command ?? command.
transform(command, ruleList, config) ==
    With(checkCommand(command, ruleList, config), LAMBDA result :
        IF ~result.ok THEN JsNull
        ELSE IF "command" \in DOMAIN result THEN result.command ELSE command)

-----------------------------------------------------------------------------
(* Inputs: commands and their disguises *)

CmdGitPush == <<"g","i","t"," ","p","u","s","h">>
CmdRmRf == <<"r","m"," ","-","r","f"," ","/">>
CmdWranglerDeploy == <<"w","r","a","n","g","l","e","r"," ","d","e","p","l","o","y">>
TextRmRf == <<"r","m"," ","-","r","f">>
TextGit == <<"g","i","t">>
TextBash == <<"b","a","s","h">>
TextWrangler == <<"w","r","a","n","g","l","e","r">>
TextPush == <<"p","u","s","h">>
TextEchoBlocked == <<"e","c","h","o"," ","b","l","o","c","k","e","d">>
PathUsrBin == <<"/","u","s","r","/","b","i","n","/">>
PathHomebrew == <<"/","o","p","t","/","h","o","m","e","b","r","e","w","/","b","i","n","/">>

\* Commands on which no transformation fires.
InnerCommands == {CmdGitPush, CmdRmRf, CmdWranglerDeploy}

\* <shell> [-flag] -c <inner> in three styles: double quotes, single
\* quotes, unquoted behind a flag.
ShellWrap(style, inner) ==
    CASE style = 0 -> ShellBash \o <<" ">> \o DashC \o <<" ", "\"">> \o inner \o <<"\"">>
      [] style = 1 -> ShellSh \o <<" ">> \o DashC \o <<" ", "'">> \o inner \o <<"'">>
      [] OTHER -> ShellZsh \o <<" ", "-", "x", " ">> \o DashC \o <<" ">> \o inner

\* k shell wrappers around inner; the wrapper at depth d has style (first + d) % 3.
RECURSIVE ShellNest(_, _, _)
ShellNest(k, first, inner) ==
    IF k = 0 THEN inner
    ELSE ShellWrap((first + k) % 3, ShellNest(k - 1, first, inner))

\* 0: no eval, 1: eval "inner", 2: eval 'inner', 3: eval inner
EvalWrap(e, inner) ==
    CASE e = 0 -> inner
      [] e = 1 -> EvalWord \o <<" ", "\"">> \o inner \o <<"\"">>
      [] e = 2 -> EvalWord \o <<" ", "'">> \o inner \o <<"'">>
      [] OTHER -> EvalWord \o <<" ">> \o inner

\* 0: no path, 1: /usr/bin/, 2: /opt/homebrew/bin/
PathWrap(p, inner) ==
    CASE p = 0 -> inner
      [] p = 1 -> PathUsrBin \o inner
      [] OTHER -> PathHomebrew \o inner

\* 0: no runner, 1: npx, 2: yarn dlx, 3: pnpx, 4: bunx
RunnerWrap(r, inner) ==
    CASE r = 0 -> inner
      [] r = 1 -> RunnerNpx \o <<" ">> \o inner
      [] r = 2 -> RunnerYarn \o <<" ">> \o RunnerDlx \o <<" ">> \o inner
      [] r = 3 -> RunnerPnpx \o <<" ">> \o inner
      [] OTHER -> RunnerBunx \o <<" ">> \o inner

\* The commands checked against the cli engine: each inner command bare,
\* behind one wrapper of each kind and behind two, padded, and the empty ones.
CliCommands ==
    {ShellNest(k, 0, EvalWrap(e, c)) : k \in 0..1, e \in {0, 3}, c \in InnerCommands}
    \cup {PathWrap(pa, RunnerWrap(r, c)) : pa \in 0..1, r \in 0..1, c \in InnerCommands}
    \cup {ShellNest(1, 1, PathWrap(1, CmdGitPush)),
          <<" ", " ">> \o CmdGitPush \o <<" ">>,
          <<" ">> \o ShellNest(1, 0, CmdRmRf),
          <<>>, <<" ", "\t">>}

\* The rules a cli rule list is drawn from.
CliRulePool ==
    {[match |-> RegExpPattern(TRUE, TextRmRf, FALSE), action |-> "deny",
      reason |-> "Dangerous command", safeAlternatives |-> <<"rm -i", "trash">>],
     [match |-> RegExpPattern(TRUE, CmdGitPush, FALSE), action |-> "deny"],
     [match |-> StringPattern(TextBash), action |-> "allow",
      reason |-> "Prefer direct commands"],
     [match |-> StringPattern(TextPush), action |-> "allow", reason |-> ""],
     [match |-> RegExpPattern(TRUE, TextWrangler, FALSE), action |-> "rewrite",
      replacement |-> TextEchoBlocked],
     [match |-> RegExpPattern(TRUE, TextWrangler, FALSE), action |-> "rewrite"],
     [match |-> RegExpPattern(TRUE, TextGit, FALSE), action |-> "mask",
      safeAlternatives |-> <<"git status">>]}

\* The longest rule list.
MaxRules == 2

\* Every list of at most n rules of the pool.
RuleLists(pool, n) == UNION {[1..k -> pool] : k \in 0..n}

BypassConfigs ==
    {BypassUndefined, BypassBoolean(TRUE), BypassBoolean(FALSE),
     BypassObject([unwrapShells |-> FALSE]),
     BypassObject([stripPaths |-> FALSE, stripPackageRunners |-> FALSE])}

-----------------------------------------------------------------------------
(* The cli engine: createCliEngine(rules, {bypassProtection}), then calls *)

Init ==
    /\ rules \in RuleLists(CliRulePool, MaxRules)
    /\ options \in BypassConfigs
    /\ injectors = Null
    /\ env = Null
    /\ ruleRegistry = <<>>
    /\ allRulesRegistered = FALSE
    /\ registrars = LoadedRegistrars
    /\ veils = <<>>
    /\ call = Idle
    /\ ret = Null

CheckCommand ==
    /\ call = Idle
    /\ \E command \in CliCommands :
          /\ call' = [op |-> "checkCommand", command |-> command]
          /\ ret' = checkCommand(command, rules, options)
    /\ UNCHANGED created

IsAllowed ==
    /\ call = Idle
    /\ \E command \in CliCommands :
          /\ call' = [op |-> "isAllowed", command |-> command]
          /\ ret' = isAllowed(command, rules, options)
    /\ UNCHANGED created

Transform ==
    /\ call = Idle
    /\ \E command \in CliCommands :
          /\ call' = [op |-> "transform", command |-> command]
          /\ ret' = transform(command, rules, options)
    /\ UNCHANGED created

\* The caller takes the result; the engine is ready for the next call.
Return ==
    /\ call # Idle
    /\ call' = Idle
    /\ ret' = Null
    /\ UNCHANGED created

Next == CheckCommand \/ IsAllowed \/ Transform \/ Return

Spec == Init /\ [][Next]_vars

-----------------------------------------------------------------------------
(* Claims about the cli engine (specification Spec) *)

\* The variants of the command of the call that match some rule, by index.
MatchingVariants(variants) ==
    {i \in 1..Len(variants) :
        \E r \in 1..Len(rules) : matchesPattern(variants[i], rules[r].match)}

\* The indices of the rules that match a text.
MatchingRules(text) ==
    {r \in 1..Len(rules) : matchesPattern(text, rules[r].match)}

\* The variant and the rule that decide a command: the first variant that
\* matches any rule, and the first rule that matches it.
Decision(variants) ==
    IF MatchingVariants(variants) = {} THEN [decided |-> FALSE]
    ELSE LET v == variants[SetMin(MatchingVariants(variants))]
         IN  [decided |-> TRUE, variant |-> v, at |-> SetMin(MatchingVariants(variants)),
              rule |-> rules[SetMin(MatchingRules(v))]]

BypassEnabled == getBypassOptions(options) # Null

CallDecision == Decision(Variants(call.command, options))

C3_RewriteFailsClosed ==
    (call.op = "checkCommand" /\ CallDecision.decided
     /\ CallDecision.rule.action = "rewrite") =>
        IF "replacement" \in DOMAIN CallDecision.rule
        THEN ret.ok /\ ret.command = CallDecision.rule.replacement
        ELSE ~ret.ok

\* The result a deny or mask rule has to give for the call's command.
ExpectedBlock(d) ==
    LET base == IF "reason" \in DOMAIN d.rule THEN d.rule.reason
                ELSE "command_denied_by_policy"
        reason == IF d.variant # Trim(call.command)
                  THEN base \o BypassNote(describeNormalization(call.command, d.variant).text)
                  ELSE base
        result == [ok |-> FALSE, blocked |-> TRUE, type |-> "cli", reason |-> reason,
                   command |-> call.command]
    IN  IF "safeAlternatives" \in DOMAIN d.rule
        THEN result @@ [safeAlternatives |-> d.rule.safeAlternatives]
        ELSE result

-----------------------------------------------------------------------------
(* Inputs: paths and file rules *)

PathSecretsKey == <<"s","e","c","r","e","t","s","/","k","e","y">>
PathAppEnv == <<"a","p","p","/",".","e","n","v">>
PathSrcConfig == <<"s","r","c","/","c","o","n","f","i","g">>
PathSrcIndex == <<"s","r","c","/","i","n","d","e","x",".","t","s">>
PathConfig == <<"c","o","n","f","i","g">>
TextSecrets == <<"s","e","c","r","e","t","s">>
TextEnv == <<"e","n","v">>
TextSrc == <<"s","r","c">>
TextConfig == <<"c","o","n","f","i","g">>
TextHidden == <<"[","h","i","d","d","e","n","]">>
TextBraces == <<"{","}">>

\* The targets handed to the matching functions and the file engine.
Paths == {PathSecretsKey, PathAppEnv, PathSrcConfig, PathSrcIndex, PathConfig, <<>>}

\* The rules a file rule list is drawn from.
FileRulePool ==
    {[match |-> StringPattern(TextSecrets), action |-> "deny", reason |-> "Sensitive data"],
     [match |-> RegExpPattern(FALSE, TextEnv, TRUE), action |-> "deny"],
     [match |-> RegExpPattern(FALSE, TextEnv, TRUE), action |-> "mask"],
     [match |-> StringPattern(TextSecrets), action |-> "mask", replacement |-> TextHidden],
     [match |-> RegExpPattern(TRUE, TextSrc, FALSE), action |-> "allow"],
     [match |-> StringPattern(TextConfig), action |-> "rewrite", replacement |-> TextBraces],
     [match |-> RegExpPattern(TRUE, PathConfig, TRUE), action |-> "rewrite"]}

-----------------------------------------------------------------------------
(* matching.ts called directly on a rule list *)

\* Rules of both kinds: with safeAlternatives (cli) and without.
MatchRulePool == FileRulePool \cup {r \in CliRulePool : r.action \in {"deny", "allow"}}

MatchTargets == Paths \cup {CmdGitPush, CmdRmRf, ShellNest(1, 0, CmdGitPush)}

InitMatching ==
    /\ rules \in RuleLists(MatchRulePool, MaxRules)
    /\ options = BypassUndefined
    /\ injectors = Null
    /\ env = Null
    /\ ruleRegistry = <<>>
    /\ allRulesRegistered = FALSE
    /\ registrars = LoadedRegistrars
    /\ veils = <<>>
    /\ call = Idle
    /\ ret = Null

MatchesPattern ==
    /\ call = Idle
    /\ \E target \in MatchTargets : \E i \in 1..Len(rules) :
          /\ call' = [op |-> "matchesPattern", target |-> target, pattern |-> rules[i].match]
          /\ ret' = matchesPattern(target, rules[i].match)
    /\ UNCHANGED created

FindMatchingRule ==
    /\ call = Idle
    /\ \E target \in MatchTargets :
          /\ call' = [op |-> "findMatchingRule", target |-> target]
          /\ ret' = findMatchingRule(target, rules)
    /\ UNCHANGED created

EvaluateRules ==
    /\ call = Idle
    /\ \E target \in MatchTargets :
          /\ call' = [op |-> "evaluateRules", target |-> target]
          /\ ret' = evaluateRules(target, rules)
    /\ UNCHANGED created

NextMatching == MatchesPattern \/ FindMatchingRule \/ EvaluateRules \/ Return

SpecMatching == InitMatching /\ [][NextMatching]_vars

\* C1: evaluateRules returns null exactly when no rule of the list matches
\* the target (always for the empty list); otherwise it returns the matching
\* rule of smallest index with that rule's action, whatever later matching
\* rules say.
C1_FirstMatchWins ==
    call.op = "evaluateRules" =>
        /\ (ret = Null) <=> (MatchingRules(call.target) = {})
        /\ rules = <<>> => ret = Null
        /\ MatchingRules(call.target) # {} =>
              /\ ret.rule = rules[SetMin(MatchingRules(call.target))]
              /\ ret.action = rules[SetMin(MatchingRules(call.target))].action

\* Two rules with different actions match the target and the first is returned.
C1_Witness ==
    /\ call.op = "evaluateRules"
    /\ Len(rules) = 2
    /\ MatchingRules(call.target) = {1, 2}
    /\ rules[1].action # rules[2].action
    /\ ret # Null
    /\ ret.rule = rules[1]

-----------------------------------------------------------------------------
(* file-engine.ts *)

HiddenByPolicy == <<"h","i","d","d","e","n","_","b","y","_","p","o","l","i","c","y">>

\* replacement is JsUndefined when the argument is not passed.
createBlockedResult(target, reason, policy, action, replacement) ==
    IF replacement # JsUndefined
    THEN [ok |-> FALSE, blocked |-> TRUE, reason |-> reason,
          details |-> [target |-> target, policy |-> policy, action |-> action,
                       replacement |-> replacement]]
    ELSE [ok |-> FALSE, blocked |-> TRUE, reason |-> reason,
          details |-> [target |-> target, policy |-> policy, action |-> action]]

\* injectors?.files / injectors?.directories / injectors?.env is set.
HasInjector(inj, kind) == kind \in DOMAIN inj

\* A switch whose rewrite case hands out true when the rule has no replacement.
FileOutcomeRewritePassThrough(path, result) ==
    CASE result.action = "allow" -> [ok |-> TRUE, value |-> JsTrue]
      [] result.action = "deny" ->
            createBlockedResult(path,
                IF "reason" \in DOMAIN result.rule THEN result.rule.reason
                ELSE "file_hidden_by_policy",
                result.policyRef, result.action, JsUndefined)
      [] result.action = "mask" ->
            createBlockedResult(path, "file_hidden_by_policy", result.policyRef, result.action,
                IF "replacement" \in DOMAIN result.rule THEN result.rule.replacement
                ELSE HiddenByPolicy)
      [] OTHER ->
            IF "replacement" \in DOMAIN result.rule
            THEN [ok |-> TRUE, value |-> result.rule.replacement]
            ELSE [ok |-> TRUE, value |-> JsTrue]

\* The switch of checkFile on the result of evaluateRules.
FileOutcome(path, result) ==
    CASE result.action = "allow" -> [ok |-> TRUE, value |-> JsTrue]
      [] result.action = "deny" ->
            createBlockedResult(path,
                IF "reason" \in DOMAIN result.rule THEN result.rule.reason
                ELSE "file_hidden_by_policy",
                result.policyRef, result.action, JsUndefined)
      [] result.action = "mask" ->
            createBlockedResult(path, "file_hidden_by_policy", result.policyRef, result.action,
                IF "replacement" \in DOMAIN result.rule THEN result.rule.replacement
                ELSE HiddenByPolicy)
      [] OTHER ->
            IF ReplacementOf(result.rule) # JsUndefined
            THEN [ok |-> TRUE, value |-> result.rule.replacement]
            ELSE createBlockedResult(path, "file_hidden_by_policy", result.policyRef,
                                     result.action, JsUndefined)

\* A checkFile that asks the injector only when no rule decides.
checkFileRulesBeforeInjector(path, ruleList, inj) ==
    With(evaluateRules(path, ruleList), LAMBDA result :
        IF result # Null THEN FileOutcome(path, result)
        ELSE IF HasInjector(inj, "files") /\ inj.files[path] # JsNull
             THEN [ok |-> TRUE, value |-> inj.files[path]]
             ELSE [ok |-> TRUE, value |-> JsTrue])

checkFile(path, ruleList, inj) ==
    IF HasInjector(inj, "files") /\ inj.files[path] # JsNull
    THEN [ok |-> TRUE, value |-> inj.files[path]]
    ELSE With(evaluateRules(path, ruleList), LAMBDA result :
             IF result = Null THEN [ok |-> TRUE, value |-> JsTrue]
             ELSE FileOutcome(path, result))

\* The switch of checkDirectory; a directory listing is a tuple of names.
DirectoryOutcome(path, result) ==
    CASE result.action = "allow" -> [ok |-> TRUE, value |-> JsTrue]
      [] result.action = "deny" ->
            createBlockedResult(path,
                IF "reason" \in DOMAIN result.rule THEN result.rule.reason
                ELSE "directory_hidden_by_policy",
                result.policyRef, result.action, JsUndefined)
      [] result.action = "mask" ->
            createBlockedResult(path, "directory_hidden_by_policy", result.policyRef,
                result.action,
                IF "replacement" \in DOMAIN result.rule THEN result.rule.replacement
                ELSE HiddenByPolicy)
      [] OTHER -> [ok |-> TRUE, value |-> <<>>]

checkDirectory(path, ruleList, inj) ==
    IF HasInjector(inj, "directories") /\ inj.directories[path] # JsNull
    THEN [ok |-> TRUE, value |-> inj.directories[path]]
    ELSE With(evaluateRules(path, ruleList), LAMBDA result :
             IF result = Null THEN [ok |-> TRUE, value |-> JsTrue]
             ELSE DirectoryOutcome(path, result))

\* isVisible of the file engine.
isVisible(path, ruleList) ==
    With(evaluateRules(path, ruleList), LAMBDA result :
        IF result = Null THEN TRUE ELSE result.action = "allow")

IsVisiblePath(ruleList) == [path \in Paths |-> isVisible(path, ruleList)]

filterPaths(paths, ruleList) ==
    With(IsVisiblePath(ruleList), LAMBDA keep :
        SelectSeq(paths, LAMBDA path : keep[path]))

-----------------------------------------------------------------------------
(* The file engine: createFileEngine(rules, injectors), then calls *)

FileContent == <<"s","y","n","t","h","e","t","i","c">>
DirectoryListing == <<PathSrcIndex, PathSrcConfig>>

\* No injectors, a file injector that serves two paths, a directory injector
\* that serves one.
FileInjectors ==
    {Null,
     [files |-> [p \in Paths |->
                    IF p \in {PathSrcIndex, PathSecretsKey} THEN FileContent ELSE JsNull]],
     [directories |-> [p \in Paths |-> IF p = PathConfig THEN DirectoryListing ELSE JsNull]]}

\* The longest list handed to filterPaths.
MaxPaths == 2

PathLists == UNION {[1..k -> Paths] : k \in 0..MaxPaths}

InitFile ==
    /\ rules \in RuleLists(FileRulePool, MaxRules)
    /\ options = BypassUndefined
    /\ injectors \in FileInjectors
    /\ env = Null
    /\ ruleRegistry = <<>>
    /\ allRulesRegistered = FALSE
    /\ registrars = LoadedRegistrars
    /\ veils = <<>>
    /\ call = Idle
    /\ ret = Null

CheckFile ==
    /\ call = Idle
    /\ \E path \in Paths :
          /\ call' = [op |-> "checkFile", path |-> path]
          /\ ret' = checkFile(path, rules, injectors)
    /\ UNCHANGED created

CheckDirectory ==
    /\ call = Idle
    /\ \E path \in Paths :
          /\ call' = [op |-> "checkDirectory", path |-> path]
          /\ ret' = checkDirectory(path, rules, injectors)
    /\ UNCHANGED created

FilterPaths ==
    /\ call = Idle
    /\ \E paths \in PathLists :
          /\ call' = [op |-> "filterPaths", paths |-> paths]
          /\ ret' = filterPaths(paths, rules)
    /\ UNCHANGED created

IsVisible ==
    /\ call = Idle
    /\ \E path \in Paths :
          /\ call' = [op |-> "isVisible", path |-> path]
          /\ ret' = isVisible(path, rules)
    /\ UNCHANGED created

NextFile == CheckFile \/ CheckDirectory \/ FilterPaths \/ IsVisible \/ Return

SpecFile == InitFile /\ [][NextFile]_vars

\* The first rule of the list that matches the path of the call.
FirstFileRule == rules[SetMin(MatchingRules(call.path))]

\* The first matching rule blocks a file: deny, mask, or rewrite without a
\* replacement.
FileRuleBlocks(rule) ==
    \/ rule.action \in {"deny", "mask"}
    \/ rule.action = "rewrite" /\ "replacement" \notin DOMAIN rule

\* C6: without a file injector, checkFile(path) is blocked exactly when the
\* first matching rule is deny, mask or rewrite without a replacement; it is
\* ok with value true for no match and for allow, and ok with the replacement
\* for rewrite with one; a mask block carries details.replacement (the rule's
\* or "hidden_by_policy"); every block carries details.target = path and
\* details.action = the rule's action.
C6_FileBlocks ==
    (call.op = "checkFile" /\ ~HasInjector(injectors, "files")) =>
        IF MatchingRules(call.path) = {} \/ FirstFileRule.action = "allow"
        THEN ret = [ok |-> TRUE, value |-> JsTrue]
        ELSE IF ~FileRuleBlocks(FirstFileRule)
        THEN ret = [ok |-> TRUE, value |-> FirstFileRule.replacement]
        ELSE /\ ~ret.ok
             /\ ret.blocked
             /\ ret.details.target = call.path
             /\ ret.details.action = FirstFileRule.action
             /\ FirstFileRule.action = "mask" =>
                   /\ "replacement" \in DOMAIN ret.details
                   /\ ret.details.replacement =
                         IF "replacement" \in DOMAIN FirstFileRule
                         THEN FirstFileRule.replacement ELSE HiddenByPolicy

\* A rewrite rule without a replacement, ahead of another rule that also
\* matches, blocks the file.
C6_Witness ==
    /\ call.op = "checkFile"
    /\ ~HasInjector(injectors, "files")
    /\ Cardinality(MatchingRules(call.path)) = 2
    /\ FirstFileRule.action = "rewrite"
    /\ "replacement" \notin DOMAIN FirstFileRule
    /\ ~ret.ok
    /\ ret.details.action = "rewrite"

-----------------------------------------------------------------------------
(* env-engine.ts *)

createEnvBlockedResult(target, reason, policy, action) ==
    [ok |-> FALSE, blocked |-> TRUE, reason |-> reason,
     details |-> [target |-> target, policy |-> policy, action |-> action]]

\* case "rewrite" of getEnv: rule.replacement ?? ""
EnvRewrite(key, result) ==
    [ok |-> TRUE,
     value |-> IF "replacement" \in DOMAIN result.rule THEN result.rule.replacement ELSE <<>>]

\* case "mask" of getEnv
EnvMask(realValue, key, result) ==
    IF realValue = JsUndefined
    THEN [ok |-> TRUE, value |-> JsUndefined]
    ELSE [ok |-> TRUE, value |-> applyMask(realValue, ReplacementOf(result.rule))]

\* The switch of getEnv; processEnv is process.env.
EnvOutcome(key, result, processEnv) ==
    CASE result.action = "allow" ->
            IF "reason" \in DOMAIN result.rule /\ result.rule.reason # ""
            THEN [ok |-> TRUE, value |-> processEnv[key], context |-> result.rule.reason]
            ELSE [ok |-> TRUE, value |-> processEnv[key]]
      [] result.action = "deny" ->
            createEnvBlockedResult(key,
                IF "reason" \in DOMAIN result.rule THEN result.rule.reason
                ELSE "env_denied_by_policy",
                result.policyRef, result.action)
      [] result.action = "mask" -> EnvMask(processEnv[key], key, result)
      [] OTHER -> EnvRewrite(key, result)

getEnv(key, ruleList, inj, processEnv) ==
    IF HasInjector(inj, "env") /\ inj.env[key] # JsNull
    THEN [ok |-> TRUE, value |-> inj.env[key]]
    ELSE With(evaluateRules(key, ruleList), LAMBDA result :
             IF result = Null THEN [ok |-> TRUE, value |-> processEnv[key]]
             ELSE EnvOutcome(key, result, processEnv))

\* The entry of getVisibleEnv for a key whose value is defined and which no
\* deny rule decides.
VisibleEnvValue(key, ruleList, processEnv) ==
    With(evaluateRules(key, ruleList), LAMBDA result :
        IF result = Null \/ result.action = "allow" THEN processEnv[key]
        ELSE IF result.action = "mask"
             THEN applyMask(processEnv[key], ReplacementOf(result.rule))
             ELSE IF "replacement" \in DOMAIN result.rule THEN result.rule.replacement
                  ELSE <<>>)

\* isVisible of the env engine.
isVisibleEnv(key, ruleList) ==
    With(evaluateRules(key, ruleList), LAMBDA result :
        IF result = Null THEN TRUE ELSE result.action # "deny")

getVisibleEnv(ruleList, processEnv) ==
    [key \in {k \in DOMAIN processEnv :
                 processEnv[k] # JsUndefined /\ isVisibleEnv(k, ruleList)} |->
        VisibleEnvValue(key, ruleList, processEnv)]

-----------------------------------------------------------------------------
(* The env engine: createEnvEngine(rules, injectors) over process.env *)

KeyApiSecret == <<"A","P","I","_","S","E","C","R","E","T">>
KeyHome == <<"H","O","M","E">>
KeyPath == <<"P","A","T","H">>
TextSecret == <<"S","E","C","R","E","T">>
TextApi == <<"A","P","I","_">>
TextHome == <<"H","O","M","E">>
TextStars == <<"*","*","*">>
TextRedacted == <<"r","e","d","a","c","t","e","d">>

EnvKeys == {KeyApiSecret, KeyHome, KeyPath}

\* The longest value of a variable.
MaxValueLen == 12

ValueChars == <<"s","3","c","r","3","t","-","k">>

\* A value of n characters.
SampleValue(n) == [i \in 1..n |-> ValueChars[((i - 1) % Len(ValueChars)) + 1]]

\* process.env: PATH is unset, the two others are unset or hold a value of at
\* most 4 characters, of 5, or of more than 10.
Environments ==
    {[k \in EnvKeys |-> CASE k = KeyApiSecret -> a [] k = KeyHome -> h [] OTHER -> JsUndefined] :
        a \in {JsUndefined, SampleValue(4), SampleValue(5), SampleValue(MaxValueLen)},
        h \in {JsUndefined, SampleValue(0)}}

EnvRulePool ==
    {[match |-> RegExpPattern(FALSE, TextSecret, FALSE), action |-> "mask"],
     [match |-> RegExpPattern(FALSE, TextSecret, TRUE), action |-> "mask",
      replacement |-> TextStars],
     [match |-> RegExpPattern(TRUE, TextApi, FALSE), action |-> "deny",
      reason |-> "API keys are hidden"],
     [match |-> StringPattern(TextHome), action |-> "allow", reason |-> "Sensitive path"],
     [match |-> RegExpPattern(TRUE, TextApi, FALSE), action |-> "rewrite",
      replacement |-> TextRedacted],
     [match |-> StringPattern(TextSecret), action |-> "rewrite"]}

EnvInjectors ==
    {Null, [env |-> [k \in EnvKeys |-> IF k = KeyHome THEN TextRedacted ELSE JsNull]]}

MaskReplacements == {JsUndefined, <<>>, TextStars}

InitEnv ==
    /\ rules \in RuleLists(EnvRulePool, MaxRules)
    /\ options = BypassUndefined
    /\ injectors \in EnvInjectors
    /\ env \in Environments
    /\ ruleRegistry = <<>>
    /\ allRulesRegistered = FALSE
    /\ registrars = LoadedRegistrars
    /\ veils = <<>>
    /\ call = Idle
    /\ ret = Null

GetEnv ==
    /\ call = Idle
    /\ \E key \in EnvKeys :
          /\ call' = [op |-> "getEnv", key |-> key]
          /\ ret' = getEnv(key, rules, injectors, env)
    /\ UNCHANGED created

GetVisibleEnv ==
    /\ call = Idle
    /\ call' = [op |-> "getVisibleEnv"]
    /\ ret' = getVisibleEnv(rules, env)
    /\ UNCHANGED created

IsVisibleEnv ==
    /\ call = Idle
    /\ \E key \in EnvKeys :
          /\ call' = [op |-> "isVisible", key |-> key]
          /\ ret' = isVisibleEnv(key, rules)
    /\ UNCHANGED created

ApplyMask ==
    /\ call = Idle
    /\ \E n \in 0..MaxValueLen : \E replacement \in MaskReplacements :
          /\ call' = [op |-> "applyMask", value |-> SampleValue(n), replacement |-> replacement]
          /\ ret' = applyMask(SampleValue(n), replacement)
    /\ UNCHANGED created

NextEnv == GetEnv \/ GetVisibleEnv \/ IsVisibleEnv \/ ApplyMask \/ Return

SpecEnv == InitEnv /\ [][NextEnv]_vars

\* The first rule of the list that matches the key of the call.
FirstEnvRule == rules[SetMin(MatchingRules(call.key))]

\* getEnv(key) is decided by a rule of the given action.
EnvDecidedBy(action) ==
    /\ call.op = "getEnv"
    /\ ~(HasInjector(injectors, "env") /\ injectors.env[call.key] # JsNull)
    /\ MatchingRules(call.key) # {}
    /\ FirstEnvRule.action = action

\* C7: when the first matching env rule is rewrite, getEnv gives ok with the
\* replacement if the rule has one and a blocked result if it has none.
C7_EnvRewriteFailsClosed ==
    EnvDecidedBy("rewrite") =>
        IF "replacement" \in DOMAIN FirstEnvRule
        THEN ret.ok /\ ret.value = FirstEnvRule.replacement
        ELSE ~ret.ok

\* masked is the mask of value: the replacement verbatim if given, "****" for
\* at most 4 characters, otherwise the first character, min(n - 2, 8)
\* asterisks and the last character.
IsMaskOf(masked, value, replacement) ==
    IF replacement # JsUndefined THEN masked = replacement
    ELSE IF Len(value) <= 4 THEN masked = <<"*", "*", "*", "*">>
    ELSE /\ Len(masked) = 2 + SetMin({Len(value) - 2, 8})
         /\ Len(masked) <= 10
         /\ masked[1] = value[1]
         /\ masked[Len(masked)] = value[Len(value)]
         /\ \A i \in 2..(Len(masked) - 1) : masked[i] = "*"

\* C8: applyMask returns the replacement verbatim when given, "****" for a
\* value of at most 4 characters, and otherwise first character, min(n - 2, 8)
\* asterisks, last character (at most 10 characters); getEnv decided by a
\* mask rule never blocks: ok with the masked value, or ok with undefined
\* when the variable is unset.
C8_MaskFormat ==
    /\ call.op = "applyMask" => IsMaskOf(ret, call.value, call.replacement)
    /\ EnvDecidedBy("mask") =>
          /\ ret.ok
          /\ IF env[call.key] = JsUndefined THEN ret.value = JsUndefined
             ELSE IsMaskOf(ret.value, env[call.key], ReplacementOf(FirstEnvRule))

\* getEnv masks a value of more than 10 characters down to 10.
C8_Witness ==
    /\ EnvDecidedBy("mask")
    /\ "replacement" \notin DOMAIN FirstEnvRule
    /\ env[call.key] # JsUndefined
    /\ Len(env[call.key]) > 10
    /\ Len(ret.value) = 10

-----------------------------------------------------------------------------
(* normalizeCommand(command, options) called directly *)

CmdQuotedTool == <<"\"","m","y"," ","t","o","o","l","\""," ","\"","a","r","g","\"">>
CmdRelativeScript == <<"b","i","n","/","d","e","p","l","o","y"," ","n","o","w">>

\* Commands on which no transformation fires, the last two beginning with a
\* quote and with a relative path.
DisguisedCommands == {CmdGitPush, CmdWranglerDeploy, CmdQuotedTool, CmdRelativeScript}

\* The deepest nesting of shell wrappers.
MaxShellNest == 6

\* A disguise: runner prefix innermost, then path prefix, then eval, then
\* shells wrappers around it.
Disguise(d) ==
    ShellNest(d.shells, d.first, EvalWrap(d.eval, PathWrap(d.path, RunnerWrap(d.runner, d.inner))))

Disguises ==
    [inner : DisguisedCommands, shells : 0..MaxShellNest, first : 0..1,
     eval : 0..3, path : 0..1, runner : 0..2]

\* Raw commands that are blank, padded, or on which a pattern fires with
\* nothing or white space behind it.
OddCommands ==
    {<<>>, <<" ">>, <<"\t", " ">>,
     <<" ">> \o CmdGitPush \o <<" ", "\t">>,
     ShellBash \o <<" ">> \o DashC \o <<" ", "\"", " ", "\"">>,
     ShellBash \o <<" ">> \o DashC \o <<" ", "\"", "\"">>,
     ShellBash \o <<" ">> \o DashC,
     EvalWord \o <<" ", "'", " ", "'">>,
     EvalWord \o <<" ">> \o EvalWord \o <<" ">> \o CmdGitPush,
     PathUsrBin \o <<" ">> \o CmdGitPush,
     PathUsrBin \o <<" ">> \o RunnerNpx \o <<" ">> \o CmdWranglerDeploy,
     PathUsrBin,
     PathUsrBin \o TextGit,
     RunnerNpx \o <<" ">> \o RunnerNpx \o <<" ">> \o CmdWranglerDeploy,
     RunnerNpx \o <<" ">> \o PathUsrBin \o CmdGitPush,
     <<" ">> \o ShellNest(2, 0, CmdRmRf) \o <<" ">>}

\* The options argument: every setting of the four fields, and two objects
\* that leave fields to DEFAULT_OPTIONS.
OptionSettings ==
    [OptionFields -> BOOLEAN] \cup {[unwrapShells |-> FALSE], [stripPaths |-> TRUE]}

InitNormalize ==
    /\ rules = <<>>
    /\ options \in OptionSettings
    /\ injectors = Null
    /\ env = Null
    /\ ruleRegistry = <<>>
    /\ allRulesRegistered = FALSE
    /\ registrars = LoadedRegistrars
    /\ veils = <<>>
    /\ call = Idle
    /\ ret = Null

NormalizeCommand ==
    /\ call = Idle
    /\ \E command \in OddCommands \cup CliCommands :
          /\ call' = [op |-> "normalizeCommand", command |-> command]
          /\ ret' = normalizeCommand(command, options)
    /\ UNCHANGED created

\* normalizeCommand on a disguise; the call keeps how the command was built.
NormalizeDisguise ==
    /\ call = Idle
    /\ \E d \in Disguises :
          /\ call' = [op |-> "normalizeCommand", command |-> Disguise(d), disguise |-> d]
          /\ ret' = normalizeCommand(Disguise(d), options)
    /\ UNCHANGED created

NextNormalize == NormalizeCommand \/ NormalizeDisguise \/ Return

SpecNormalize == InitNormalize /\ [][NextNormalize]_vars

IsBlank(s) == \A i \in 1..Len(s) : s[i] \in WhiteSpace

\* C9: normalizeCommand returns the empty list exactly for an empty or
\* white-space-only input; otherwise element 0 is the trimmed input, no
\* string occurs twice, and no element is empty or begins or ends with white
\* space.
C9_VariantListShape ==
    call.op = "normalizeCommand" =>
        /\ (ret = <<>>) <=> IsBlank(call.command)
        /\ ret # <<>> => ret[1] = Trim(call.command)
        /\ \A i \in 1..Len(ret) : \A j \in 1..Len(ret) : ret[i] = ret[j] => i = j
        /\ \A i \in 1..Len(ret) :
              /\ ret[i] # <<>>
              /\ ret[i][1] \notin WhiteSpace
              /\ ret[i][Len(ret[i])] \notin WhiteSpace

\* A shell pattern fires on white space only: nothing is added behind the
\* trimmed input.
C9_Witness ==
    /\ call.op = "normalizeCommand"
    /\ MergeOptions(options).unwrapShells
    /\ SHELL_WRAPPER_PATTERNS(Trim(call.command)).matched
    /\ IsBlank(SHELL_WRAPPER_PATTERNS(Trim(call.command)).group)
    /\ ret = <<Trim(call.command)>>

\* The disguise of the call was given to normalizeCommand with all four
\* transformations enabled, and no transformation fires on its inner command.
DisguiseCall ==
    /\ call.op = "normalizeCommand"
    /\ "disguise" \in DOMAIN call
    /\ MergeOptions(options) = DEFAULT_OPTIONS
    /\ normalizeCommand(call.disguise.inner, DEFAULT_OPTIONS) = <<call.disguise.inner>>

\* The inner command and every intermediate form of a disguise.
DisguiseForms(d) ==
    {d.inner,
     RunnerWrap(d.runner, d.inner),
     PathWrap(d.path, RunnerWrap(d.runner, d.inner))}
    \cup {ShellNest(j, d.first,
              EvalWrap(d.eval, PathWrap(d.path, RunnerWrap(d.runner, d.inner)))) :
            j \in 0..d.shells}

Variant(list) == {list[i] : i \in 1..Len(list)}

\* The first word of c: up to the first white space.
FirstWord(c) == SubSeq(c, 1, SkipWhile(c, 1, {ch \in Variant(c) : ch \notin WhiteSpace}) - 1)

\* C10 as stated: for any number of shell wrappers and any inner command on
\* which no transformation fires, the inner command and every intermediate
\* form of the disguise are variants.
C10_AnyDisguiseSurfaces ==
    DisguiseCall => DisguiseForms(call.disguise) \subseteq Variant(ret)

\* C10: with all four transformations enabled, for a disguise of at most
\* maxIterations shell wrappers, then eval, then a path prefix, then a
\* package runner around an inner command on which no transformation fires,
\* which begins with a word character and has no "/" in its first word, the
\* inner command and every intermediate form are variants.
C10_DisguiseSurfaces ==
    (/\ DisguiseCall
     /\ call.disguise.shells <= maxIterations
     /\ call.disguise.inner[1] \in WordChars
     /\ ~Includes(FirstWord(call.disguise.inner), <<"/">>)) =>
        DisguiseForms(call.disguise) \subseteq Variant(ret)

\* Five shell wrappers, eval, a path prefix and a package runner: nine
\* variants, the last the inner command.
C10_Witness ==
    /\ DisguiseCall
    /\ call.disguise.shells = maxIterations
    /\ call.disguise.eval > 0
    /\ call.disguise.path > 0
    /\ call.disguise.runner > 0
    /\ Len(ret) = maxIterations + 4
    /\ ret[Len(ret)] = call.disguise.inner

-----------------------------------------------------------------------------
(* The cap of the shell-unwrap loop (specification SpecNormalize) *)

\* What the shell wrappers of a disguise are put around.
Wrapped(d) == EvalWrap(d.eval, PathWrap(d.path, RunnerWrap(d.runner, d.inner)))

\* normalizeCommand was given a disguise with shell unwrapping enabled.
ShellNestCall ==
    /\ call.op = "normalizeCommand"
    /\ "disguise" \in DOMAIN call
    /\ MergeOptions(options).unwrapShells

\* Of a command nested in k shell wrappers, the form with j wrappers left is
\* a variant exactly when at most maxIterations wrappers were taken off.
UnwrappedFormsSurface(d) ==
    \A j \in 0..(d.shells - 1) :
        (ShellNest(j, d.first, Wrapped(d)) \in Variant(ret)) <=>
            (d.shells - j <= maxIterations)

\* C11 as stated: the result has at most 9 variants (the input, at most 5
\* unwrap steps, three more stages); of any command nested in k shell
\* wrappers, all k unwrapped forms are variants when k <= 5 and only the
\* first 5 when k > 5.
C11_AnyNestUnwraps ==
    /\ call.op = "normalizeCommand" => Len(ret) <= maxIterations + 4
    /\ ShellNestCall => UnwrappedFormsSurface(call.disguise)

\* C11: the result has at most 9 variants; of a command that begins with
\* neither a quote nor "-", nested in k shell wrappers, all k unwrapped forms
\* are variants when k <= 5 and only the first 5 when k > 5.
C11_CappedUnwrap ==
    /\ call.op = "normalizeCommand" => Len(ret) <= maxIterations + 4
    /\ (ShellNestCall /\ Wrapped(call.disguise)[1] \notin QuoteChars \cup {"-"}) =>
          UnwrappedFormsSurface(call.disguise)

\* More than five wrappers: five unwrapped forms behind the input, and the
\* innermost command is not among them.
C11_NestWitness ==
    /\ ShellNestCall
    /\ call.disguise.shells > maxIterations
    /\ Wrapped(call.disguise)[1] \notin QuoteChars \cup {"-"}
    /\ Len(ret) = maxIterations + 1
    /\ Wrapped(call.disguise) \notin Variant(ret)

-----------------------------------------------------------------------------
(* The policy reference (specification SpecFile) *)

\* C12: the policy reference of a result is <listName>[<index>], index the
\* index of the first matching rule and listName the list evaluated: a
\* blocked checkFile carries details.policy = "fileRules[i]".
C12_FilePolicyRef ==
    (call.op = "checkFile" /\ ~ret.ok) =>
        ret.details.policy =
            "fileRules[" \o ToString(SetMin(MatchingRules(call.path)) - 1) \o "]"

-----------------------------------------------------------------------------
(* A file engine and an env engine created with the same injectors, as      *)
(* createVeil creates them                                                  *)

\* injectors.files: content for two paths, the empty content for a third.
InjectedFiles ==
    [p \in Paths |->
        CASE p \in {PathSrcIndex, PathSecretsKey} -> FileContent
          [] p = PathAppEnv -> <<>>
          [] OTHER -> JsNull]

\* injectors.directories
InjectedDirectories ==
    [p \in Paths |-> IF p \in {PathConfig, PathSecretsKey} THEN DirectoryListing ELSE JsNull]

\* injectors.env
InjectedEnv == [k \in EnvKeys |-> IF k = KeyApiSecret THEN TextRedacted ELSE JsNull]

InjectorSets ==
    {Null,
     [files |-> InjectedFiles],
     [directories |-> InjectedDirectories],
     [env |-> InjectedEnv],
     [files |-> InjectedFiles, directories |-> InjectedDirectories, env |-> InjectedEnv]}

\* Rules that block paths and keys the injectors serve, and others.
InjectedRulePool ==
    {r \in FileRulePool \cup EnvRulePool :
        r.action = "deny" \/ (r.action = "mask" /\ "replacement" \notin DOMAIN r)}

InitInjected ==
    /\ rules \in RuleLists(InjectedRulePool, MaxRules)
    /\ options = BypassUndefined
    /\ injectors \in InjectorSets
    /\ env \in {e \in Environments : e[KeyHome] = JsUndefined}
    /\ ruleRegistry = <<>>
    /\ allRulesRegistered = FALSE
    /\ registrars = LoadedRegistrars
    /\ veils = <<>>
    /\ call = Idle
    /\ ret = Null

NextInjected == CheckFile \/ CheckDirectory \/ GetEnv \/ Return

SpecInjected == InitInjected /\ [][NextInjected]_vars

\* What the injector of the call's kind returns for the call's target, null
\* when there is no such injector.
Injected ==
    CASE call.op = "checkFile" /\ HasInjector(injectors, "files") -> injectors.files[call.path]
      [] call.op = "checkDirectory" /\ HasInjector(injectors, "directories") ->
            injectors.directories[call.path]
      [] call.op = "getEnv" /\ HasInjector(injectors, "env") -> injectors.env[call.key]
      [] OTHER -> JsNull

\* The result of the same call on an engine with the same rules and no injectors.
WithoutInjectors ==
    CASE call.op = "checkFile" -> checkFile(call.path, rules, Null)
      [] call.op = "checkDirectory" -> checkDirectory(call.path, rules, Null)
      [] OTHER -> getEnv(call.key, rules, Null, env)

\* C13: when the injector returns a non-null value for the target, checkFile,
\* checkDirectory and getEnv return ok with exactly that value, whatever the
\* rules say; when it returns null the result is that of an engine with the
\* same rules and no injector.
C13_InjectorShortCircuits ==
    call.op \in {"checkFile", "checkDirectory", "getEnv"} =>
        IF Injected # JsNull
        THEN ret = [ok |-> TRUE, value |-> Injected]
        ELSE ret = WithoutInjectors

\* The injector serves a file that the first matching rule denies.
C13_Witness ==
    /\ call.op = "checkFile"
    /\ Injected # JsNull
    /\ MatchingRules(call.path) # {}
    /\ rules[SetMin(MatchingRules(call.path))].action = "deny"
    /\ ret.ok
    /\ ret.value = Injected

-----------------------------------------------------------------------------
(* isVisible and filterPaths against checkFile (specification SpecFile) *)

\* C14: for a file engine without injectors, isVisible(p) = checkFile(p).ok
\* and filterPaths(paths) is the sublist, in order, of the p with
\* checkFile(p).ok.
C14_VisibleIsCheckFileOk ==
    /\ (call.op = "isVisible" /\ injectors = Null) =>
          ret = checkFile(call.path, rules, Null).ok
    /\ (call.op = "filterPaths" /\ injectors = Null) =>
          ret = SelectSeq(call.paths, LAMBDA p : checkFile(p, rules, Null).ok)

-----------------------------------------------------------------------------
(* rules/registry.ts and the modal definitions of rules/platform.ts *)

\* The source of a RegExp of a named rule.  The registry and the
\* configuration assembly copy patterns and never test them.
RegExpSource(source) == [kind |-> "regexp", source |-> source]

\* The registry module state as one value: the Map (a function from ids to
\* definitions; its insertion order is read by no operation modelled here)
\* and the lazy-registration flag.
Registry(map, registered) == [ruleRegistry |-> map, allRulesRegistered |-> registered]

\* The registry module's state after an operation.
SetRegistry(reg) ==
    /\ ruleRegistry' = reg.ruleRegistry
    /\ allRulesRegistered' = reg.allRulesRegistered

clearRegistry(reg) == Registry(<<>>, FALSE)

\* A set() without the has() test: the last registration wins.
registerRuleOverwrite(reg, rule) ==
    [reg EXCEPT !.ruleRegistry = (rule.id :> rule) @@ @]

\* Skips an id that is already registered.
registerRule(reg, rule) ==
    IF rule.id \in DOMAIN reg.ruleRegistry
    THEN reg
    ELSE [reg EXCEPT !.ruleRegistry = @ @@ (rule.id :> rule)]

RECURSIVE registerRules(_, _)
registerRules(reg, ruleList) ==
    IF ruleList = <<>> THEN reg
    ELSE With(registerRule(reg, Head(ruleList)),
              LAMBDA next : registerRules(next, Tail(ruleList)))

\* Samples of the platform rule lists (one to two definitions of each).
windowsRules ==
    <<[id |-> "win/no-delete-system32", platforms |-> {"windows"},
       cliRules |-> <<[match |-> RegExpSource("del.*\\\\Windows\\\\System32"),
                       action |-> "deny", reason |-> "Cannot delete System32",
                       safeAlternatives |-> <<"Use Windows Settings to uninstall programs">>],
                      [match |-> RegExpSource("rmdir.*\\\\Windows\\\\System32"),
                       action |-> "deny", reason |-> "Cannot delete System32"]>>]>>

darwinRules ==
    <<[id |-> "darwin/no-delete-system", platforms |-> {"darwin"},
       cliRules |-> <<[match |-> RegExpSource("rm\\s+-rf?\\s+\\/System"),
                       action |-> "deny", reason |-> "Cannot delete System directory"]>>]>>

PathEtcShadow == <<"/","e","t","c","/","s","h","a","d","o","w">>
PathEtcGshadow == <<"/","e","t","c","/","g","s","h","a","d","o","w">>

\* The two patterns of linux/hide-shadow are literal texts without anchors,
\* so the file engine of this model can test them.
linuxRules ==
    <<[id |-> "linux/hide-shadow", platforms |-> {"linux"},
       fileRules |-> <<[match |-> RegExpPattern(FALSE, PathEtcShadow, FALSE),
                        action |-> "deny", reason |-> "Password hashes"],
                       [match |-> RegExpPattern(FALSE, PathEtcGshadow, FALSE),
                        action |-> "deny", reason |-> "Group password hashes"]>>]>>

crossPlatformRules ==
    <<[id |-> "env/mask-aws", platforms |-> {"all"},
       envRules |-> <<[match |-> RegExpSource("^AWS_"),
                       action |-> "mask", reason |-> "AWS credentials"]>>],
      [id |-> "fs/hide-env-files", platforms |-> {"all"},
       fileRules |-> <<[match |-> RegExpSource("\\.env($|\\.)"),
                        action |-> "deny", reason |-> "Environment file"]>>]>>

registerPlatformRules(reg) ==
    registerRules(registerRules(registerRules(registerRules(reg,
        windowsRules), darwinRules), linuxRules), crossPlatformRules)

\* The template texts of the modal definitions, by their first line.
WRANGLER_DEFAULT_CONTEXT == "## Cloudflare Wrangler Context"
WRANGLER_STRICT_MESSAGE == "Wrangler access is blocked by policy."
DOCKER_DEFAULT_CONTEXT == "## Docker Context"
DOCKER_STRICT_MESSAGE == "Docker access is blocked by policy."
TERRAFORM_DEFAULT_CONTEXT == "## Terraform Context"
TERRAFORM_STRICT_MESSAGE == "Terraform access is blocked by policy."
KUBECTL_DEFAULT_CONTEXT == "## Kubernetes Context"
KUBECTL_STRICT_MESSAGE == "Kubernetes access is blocked by policy."
AWS_DEFAULT_CONTEXT == "## AWS CLI Context"
AWS_STRICT_MESSAGE == "AWS CLI access is blocked by policy."
NPM_DEFAULT_CONTEXT == "## Package Manager Context"
NPM_STRICT_MESSAGE == "Package manager access is blocked by policy."
GIT_DEFAULT_CONTEXT == "## Git Context"
GIT_STRICT_MESSAGE == "Git push access is blocked by policy."

\* options?.message ?? strictMessage and options?.context ?? defaultContext
MessageOr(modalOptions, strictMessage) ==
    IF "message" \in DOMAIN modalOptions THEN modalOptions.message ELSE strictMessage

ContextOr(modalOptions, defaultContext) ==
    IF "context" \in DOMAIN modalOptions THEN modalOptions.context ELSE defaultContext

DenyRule(source, message) ==
    [match |-> RegExpSource(source), action |-> "deny", reason |-> message]

AllowRule(source, context) ==
    [match |-> RegExpSource(source), action |-> "allow", reason |-> context]

wranglerCreateRules(mode, modalOptions) ==
    IF mode = "strict"
    THEN With(MessageOr(modalOptions, WRANGLER_STRICT_MESSAGE), LAMBDA message :
             [cliRules |-> <<DenyRule("^wrangler\\s", message)>>,
              fileRules |-> <<DenyRule("wrangler\\.toml$", message)>>])
    ELSE [cliRules |-> <<AllowRule("^wrangler\\s",
                                   ContextOr(modalOptions, WRANGLER_DEFAULT_CONTEXT))>>]

dockerCreateRules(mode, modalOptions) ==
    IF mode = "strict"
    THEN With(MessageOr(modalOptions, DOCKER_STRICT_MESSAGE), LAMBDA message :
             [cliRules |-> <<DenyRule("^docker\\s", message),
                             DenyRule("^docker-compose\\s", message)>>,
              fileRules |-> <<DenyRule("Dockerfile$", message),
                              DenyRule("docker-compose\\.ya?ml$", message)>>])
    ELSE [cliRules |-> <<AllowRule("^docker\\s",
                                   ContextOr(modalOptions, DOCKER_DEFAULT_CONTEXT))>>]

terraformCreateRules(mode, modalOptions) ==
    IF mode = "strict"
    THEN With(MessageOr(modalOptions, TERRAFORM_STRICT_MESSAGE), LAMBDA message :
             [cliRules |-> <<DenyRule("^terraform\\s", message)>>,
              fileRules |-> <<DenyRule("\\.tf$", message),
                              DenyRule("\\.tfvars$", message)>>])
    ELSE [cliRules |-> <<AllowRule("^terraform\\s",
                                   ContextOr(modalOptions, TERRAFORM_DEFAULT_CONTEXT))>>]

kubectlCreateRules(mode, modalOptions) ==
    IF mode = "strict"
    THEN [cliRules |-> <<DenyRule("^kubectl\\s",
                                  MessageOr(modalOptions, KUBECTL_STRICT_MESSAGE))>>]
    ELSE [cliRules |-> <<AllowRule("^kubectl\\s",
                                   ContextOr(modalOptions, KUBECTL_DEFAULT_CONTEXT))>>]

awsCliCreateRules(mode, modalOptions) ==
    IF mode = "strict"
    THEN [cliRules |-> <<DenyRule("^aws\\s",
                                  MessageOr(modalOptions, AWS_STRICT_MESSAGE))>>]
    ELSE [cliRules |-> <<AllowRule("^aws\\s",
                                   ContextOr(modalOptions, AWS_DEFAULT_CONTEXT))>>]

npmCreateRules(mode, modalOptions) ==
    IF mode = "strict"
    THEN [cliRules |-> <<DenyRule("^(npm|pnpm|yarn)\\s+(install|add|remove)",
                                  MessageOr(modalOptions, NPM_STRICT_MESSAGE))>>]
    ELSE [cliRules |-> <<AllowRule("^(npm|pnpm|yarn)\\s",
                                   ContextOr(modalOptions, NPM_DEFAULT_CONTEXT))>>]

gitCreateRules(mode, modalOptions) ==
    IF mode = "strict"
    THEN With(MessageOr(modalOptions, GIT_STRICT_MESSAGE), LAMBDA message :
             [cliRules |-> <<DenyRule("^git\\s+push", message),
                             DenyRule("^git\\s+push.*--force",
                                      "Force push is not allowed")>>])
    ELSE [cliRules |-> <<AllowRule("^git\\s",
                                   ContextOr(modalOptions, GIT_DEFAULT_CONTEXT))>>]

\* A modal definition: createRules names the factory of the definition.
ModalRule(id, factory) ==
    [id |-> id, platforms |-> {"all"}, supportsMode |-> TRUE,
     defaultMode |-> "passive", createRules |-> factory]

modalRules ==
    <<ModalRule("cloudflare/wrangler", "wranglerRule"),
      ModalRule("container/docker", "dockerRule"),
      ModalRule("infra/terraform", "terraformRule"),
      ModalRule("infra/kubectl", "kubectlRule"),
      ModalRule("cloud/aws-cli", "awsCliRule"),
      ModalRule("tooling/npm", "npmRule"),
      ModalRule("tooling/git", "gitRule")>>

registerModalRules(reg) == registerRules(reg, modalRules)

\* rule.createRules(mode, options)
createRules(rule, mode, modalOptions) ==
    CASE rule.createRules = "wranglerRule" -> wranglerCreateRules(mode, modalOptions)
      [] rule.createRules = "dockerRule" -> dockerCreateRules(mode, modalOptions)
      [] rule.createRules = "terraformRule" -> terraformCreateRules(mode, modalOptions)
      [] rule.createRules = "kubectlRule" -> kubectlCreateRules(mode, modalOptions)
      [] rule.createRules = "awsCliRule" -> awsCliCreateRules(mode, modalOptions)
      [] rule.createRules = "npmRule" -> npmCreateRules(mode, modalOptions)
      [] rule.createRules = "gitRule" -> gitCreateRules(mode, modalOptions)

\* platformRegistrar?.(); modalRegistrar?.(); allRulesRegistered = true,
\* unless the flag is set already.  A registrar that is set is the one its
\* module hands over: registerPlatformRules, registerModalRules.
ensureRulesRegistered(reg) ==
    IF reg.allRulesRegistered THEN reg
    ELSE With(IF registrars.platform THEN registerPlatformRules(reg) ELSE reg,
              LAMBDA afterPlatform :
         With(IF registrars.modal THEN registerModalRules(afterPlatform)
              ELSE afterPlatform, LAMBDA afterModal :
             [afterModal EXCEPT !.allRulesRegistered = TRUE]))

\* getRule: the registry after the call and the definition found (Null for
\* undefined).
getRule(reg, id) ==
    With(ensureRulesRegistered(reg), LAMBDA ensured :
        [registry |-> ensured,
         rule |-> IF id \in DOMAIN ensured.ruleRegistry
                  THEN ensured.ruleRegistry[id] ELSE Null])

detectPlatform(processPlatform) ==
    CASE processPlatform = "win32" -> "windows"
      [] processPlatform = "darwin" -> "darwin"
      [] processPlatform = "linux" -> "linux"
      [] OTHER -> "linux"

\* A RuleConfig: a severity string, a tuple [severity, ModalRuleConfig?] or a
\* ModalRuleConfig object.
SeverityConfig(severity) == [type |-> "string", severity |-> severity]
TupleConfig(items) == [type |-> "array", items |-> items]
ObjectConfig(modalConfig) == [type |-> "object", modalConfig |-> modalConfig]

\* A tuple counts as enabled whatever its first element.
severityToEnabledTupleOn(ruleConfig) ==
    ruleConfig.type # "string" \/ ruleConfig.severity # "off"

severityToEnabled(ruleConfig) ==
    CASE ruleConfig.type = "object" -> TRUE
      [] ruleConfig.type = "string" -> ruleConfig.severity # "off"
      [] OTHER -> Len(ruleConfig.items) = 0 \/ ruleConfig.items[1] # "off"

\* Null for undefined.
extractModalConfig(ruleConfig) ==
    CASE ruleConfig.type = "string" -> Null
      [] ruleConfig.type = "array" ->
            IF Len(ruleConfig.items) >= 2 THEN ruleConfig.items[2] ELSE Null
      [] OTHER -> ruleConfig.modalConfig

\* generated.fileRules / envRules / cliRules pushed when present
PushRules(config, generated) ==
    [fileRules |-> config.fileRules \o
                   (IF "fileRules" \in DOMAIN generated THEN generated.fileRules ELSE <<>>),
     envRules |-> config.envRules \o
                  (IF "envRules" \in DOMAIN generated THEN generated.envRules ELSE <<>>),
     cliRules |-> config.cliRules \o
                  (IF "cliRules" \in DOMAIN generated THEN generated.cliRules ELSE <<>>)]

\* The definition's default decides even when the entry names a mode.
ModeOfDefaultFirst(modalConfig, rule) ==
    IF "defaultMode" \in DOMAIN rule THEN rule.defaultMode
    ELSE IF "mode" \in DOMAIN modalConfig THEN modalConfig.mode
    ELSE "passive"

\* modalConfig?.mode ?? rule.defaultMode ?? "passive" (undefined, Null here,
\* has no field)
ModeOf(modalConfig, rule) ==
    IF "mode" \in DOMAIN modalConfig THEN modalConfig.mode
    ELSE IF "defaultMode" \in DOMAIN rule THEN rule.defaultMode
    ELSE "passive"

\* The options object built "only with defined values".
ModalOptionsOf(modalConfig) ==
    [f \in DOMAIN modalConfig \cap {"message", "context"} |-> modalConfig[f]]

\* The rules one enabled, known, platform-compatible entry contributes.
GeneratedRules(rule, ruleConfig) ==
    IF "supportsMode" \in DOMAIN rule /\ rule.supportsMode /\ "createRules" \in DOMAIN rule
    THEN With(extractModalConfig(ruleConfig), LAMBDA modalConfig :
             createRules(rule, ModeOf(modalConfig, rule), ModalOptionsOf(modalConfig)))
    ELSE rule

\* The for loop of buildConfigFromRules from entry i; acc holds the config
\* so far, the registry and the ids warned about.
RECURSIVE BuildFrom(_, _, _, _)
BuildFrom(rulesConfig, i, targetPlatform, acc) ==
    IF i > Len(rulesConfig) THEN acc
    ELSE IF ~severityToEnabled(rulesConfig[i].ruleConfig)
    THEN BuildFrom(rulesConfig, i + 1, targetPlatform, acc)
    ELSE With(getRule(acc.registry, rulesConfig[i].ruleId), LAMBDA found :
        IF found.rule = Null
        THEN BuildFrom(rulesConfig, i + 1, targetPlatform,
                       [acc EXCEPT !.registry = found.registry,
                                   !.warnings = Append(@, rulesConfig[i].ruleId)])
        ELSE IF "all" \notin found.rule.platforms
                /\ targetPlatform \notin found.rule.platforms
        THEN BuildFrom(rulesConfig, i + 1, targetPlatform,
                       [acc EXCEPT !.registry = found.registry])
        ELSE With(PushRules(acc.config,
                            GeneratedRules(found.rule, rulesConfig[i].ruleConfig)),
                  LAMBDA config :
                      BuildFrom(rulesConfig, i + 1, targetPlatform,
                                [acc EXCEPT !.registry = found.registry,
                                            !.config = config])))

\* rulesConfig: Object.entries(rulesConfig) as a list of [ruleId, ruleConfig];
\* given: the optional argument, a record with the field platform or without.
buildConfigFromRules(rulesConfig, given, processPlatform, reg) ==
    BuildFrom(rulesConfig, 1,
              IF "platform" \in DOMAIN given THEN given.platform
              ELSE detectPlatform(processPlatform),
              [config |-> [fileRules |-> <<>>, envRules |-> <<>>, cliRules |-> <<>>],
               registry |-> reg, warnings |-> <<>>])

-----------------------------------------------------------------------------
(* Configuration assembly: buildConfigFromRules and createRules calls *)

\* Definitions a caller registers: one without defaultMode and one whose
\* defaultMode is strict, both reusing a built-in factory, and a static one
\* under the id of a built-in modal definition.
customDeploy ==
    [id |-> "custom/deploy", platforms |-> {"linux"}, supportsMode |-> TRUE,
     createRules |-> "wranglerRule"]

customLocked ==
    [id |-> "custom/locked", platforms |-> {"all"}, supportsMode |-> TRUE,
     defaultMode |-> "strict", createRules |-> "dockerRule"]

customWrangler ==
    [id |-> "cloudflare/wrangler", platforms |-> {"linux"},
     cliRules |-> <<DenyRule("^wrangler\\s+deploy", "Deploys go through CI")>>]

OverrideMessage == "Use the deploy pipeline"
OverrideContext == "Staging only"

ModalOptionSets ==
    {<<>>, [message |-> OverrideMessage], [context |-> OverrideContext],
     [message |-> "", context |-> OverrideContext]}

RuleConfigPool ==
    {SeverityConfig("off"), SeverityConfig("error"),
     TupleConfig(<<"off", [mode |-> "strict"]>>),
     TupleConfig(<<"error", [mode |-> "strict"]>>),
     TupleConfig(<<"warn", [mode |-> "strict", message |-> OverrideMessage]>>),
     ObjectConfig([mode |-> "passive", context |-> OverrideContext])}

ConfigRuleIds ==
    {"cloudflare/wrangler", "tooling/git", "tooling/npm", "linux/hide-shadow",
     "custom/locked", "custom/unknown"}

\* The most entries of a RulesConfig.
MaxEntries == 2

\* Every RulesConfig of at most n entries, as the list Object.entries gives:
\* the keys are distinct.
RulesConfigs(n) ==
    UNION {{c \in [1..k -> [ruleId : ConfigRuleIds, ruleConfig : RuleConfigPool]] :
              \A i, j \in 1..k : c[i].ruleId = c[j].ruleId => i = j} : k \in 0..n}

\* (platform argument, process.platform)
PlatformSettings ==
    {<<<<>>, "linux">>, <<<<>>, "win32">>, <<<<>>, "freebsd">>,
     <<[platform |-> "windows"], "linux">>}

InitRules ==
    /\ rules = <<>>
    /\ options = BypassUndefined
    /\ injectors = Null
    /\ env = Null
    /\ ruleRegistry \in
          {<<>>,
           registerRules(registerModalRules(Registry(<<>>, FALSE)),
                         <<customDeploy, customLocked>>).ruleRegistry}
    /\ allRulesRegistered = FALSE
    /\ registrars = LoadedRegistrars
    /\ veils = <<>>
    /\ call = Idle
    /\ ret = Null

BuildConfigFromRules ==
    /\ call = Idle
    /\ \E rulesConfig \in RulesConfigs(MaxEntries), setting \in PlatformSettings :
          /\ call' = [op |-> "buildConfigFromRules", rulesConfig |-> rulesConfig,
                      given |-> setting[1], processPlatform |-> setting[2]]
          /\ ret' = buildConfigFromRules(rulesConfig, setting[1], setting[2],
                                         Registry(ruleRegistry, allRulesRegistered))
          /\ ruleRegistry' = ret'.registry.ruleRegistry
          /\ allRulesRegistered' = ret'.registry.allRulesRegistered
    /\ UNCHANGED <<rules, options, injectors, env, registrars, veils>>

\* rule.createRules(mode, options) on an exported modal definition.
CreateRules ==
    /\ call = Idle
    /\ \E i \in 1..Len(modalRules), mode \in {"strict", "passive"},
          modalOptions \in ModalOptionSets :
          /\ call' = [op |-> "createRules", rule |-> modalRules[i], mode |-> mode,
                      modalOptions |-> modalOptions]
          /\ ret' = createRules(modalRules[i], mode, modalOptions)
    /\ UNCHANGED created

NextRules == BuildConfigFromRules \/ CreateRules \/ Return

SpecRules == InitRules /\ [][NextRules]_vars

-----------------------------------------------------------------------------
(* Claims about the configuration assembly (specification SpecRules) *)

BuildCall == call # Idle /\ call.op = "buildConfigFromRules"

TargetPlatform ==
    IF "platform" \in DOMAIN call.given THEN call.given.platform
    ELSE IF call.processPlatform = "win32" THEN "windows"
    ELSE IF call.processPlatform = "darwin" THEN "darwin"
    ELSE "linux"

\* "off" alone or as the first element of a tuple.
ConfiguredOff(ruleConfig) ==
    \/ ruleConfig.type = "string" /\ ruleConfig.severity = "off"
    \/ ruleConfig.type = "array" /\ Len(ruleConfig.items) > 0 /\ ruleConfig.items[1] = "off"

\* Entry e of the call contributes: it is not off, its id is registered and
\* the definition's platforms include the target platform.
Contributes(e) ==
    /\ ~ConfiguredOff(e.ruleConfig)
    /\ e.ruleId \in DOMAIN ruleRegistry
    /\ \/ "all" \in ruleRegistry[e.ruleId].platforms
       \/ TargetPlatform \in ruleRegistry[e.ruleId].platforms

IsModal(rule) == "createRules" \in DOMAIN rule

\* The ModalRuleConfig of an entry (a record without fields when the entry
\* gives none).
EntryModalConfig(ruleConfig) ==
    CASE ruleConfig.type = "object" -> ruleConfig.modalConfig
      [] ruleConfig.type = "array" /\ Len(ruleConfig.items) >= 2 -> ruleConfig.items[2]
      [] OTHER -> <<>>

\* entry mode, otherwise defaultMode, otherwise passive
ExpectedMode(e) ==
    IF "mode" \in DOMAIN EntryModalConfig(e.ruleConfig)
    THEN EntryModalConfig(e.ruleConfig).mode
    ELSE IF "defaultMode" \in DOMAIN ruleRegistry[e.ruleId]
    THEN ruleRegistry[e.ruleId].defaultMode
    ELSE "passive"

\* The pattern that recognises an invocation of the definition's tool.
InvocationPattern(rule) ==
    CASE rule.createRules = "wranglerRule" -> RegExpSource("^wrangler\\s")
      [] rule.createRules = "dockerRule" -> RegExpSource("^docker\\s")
      [] rule.createRules = "terraformRule" -> RegExpSource("^terraform\\s")
      [] rule.createRules = "kubectlRule" -> RegExpSource("^kubectl\\s")
      [] rule.createRules = "awsCliRule" -> RegExpSource("^aws\\s")
      [] rule.createRules = "npmRule" -> RegExpSource("^(npm|pnpm|yarn)\\s")
      [] rule.createRules = "gitRule" -> RegExpSource("^git\\s")

\* The pattern the strict deny rule carries: for npm and git a narrower one.
StrictPattern(rule) ==
    CASE rule.createRules = "npmRule" ->
            RegExpSource("^(npm|pnpm|yarn)\\s+(install|add|remove)")
      [] rule.createRules = "gitRule" -> RegExpSource("^git\\s+push")
      [] OTHER -> InvocationPattern(rule)

Elements(list) == {list[i] : i \in 1..Len(list)}

\* The resolved mode is the expected one: the call's cli rules hold what the
\* factory gives for that mode.
ModeResolved(e) ==
    Elements(createRules(ruleRegistry[e.ruleId], ExpectedMode(e),
                         ModalOptionsOf(EntryModalConfig(e.ruleConfig))).cliRules)
        \subseteq Elements(ret.config.cliRules)

PassiveByDefault(e) ==
    /\ "defaultMode" \in DOMAIN ruleRegistry[e.ruleId]
    /\ ruleRegistry[e.ruleId].defaultMode = "passive"

\* Without a mode: an allow rule for the invocation pattern.
OmittedModeAllows(e) ==
    "mode" \notin DOMAIN EntryModalConfig(e.ruleConfig) =>
        \E r \in Elements(ret.config.cliRules) :
            r.action = "allow" /\ r.match = InvocationPattern(ruleRegistry[e.ruleId])

\* With mode strict: a deny rule for pattern(definition), whose reason is the
\* override message when the entry supplies one.
StrictDenies(e, pattern(_)) ==
    ExpectedMode(e) = "strict" =>
        \E r \in Elements(ret.config.cliRules) :
            /\ r.action = "deny" /\ r.match = pattern(ruleRegistry[e.ruleId])
            /\ "message" \in DOMAIN EntryModalConfig(e.ruleConfig)
                  => r.reason = EntryModalConfig(e.ruleConfig).message

ModalEntries ==
    {e \in Elements(call.rulesConfig) : Contributes(e) /\ IsModal(ruleRegistry[e.ruleId])}

StrictMessage(rule) ==
    CASE rule.createRules = "wranglerRule" -> WRANGLER_STRICT_MESSAGE
      [] rule.createRules = "dockerRule" -> DOCKER_STRICT_MESSAGE
      [] rule.createRules = "terraformRule" -> TERRAFORM_STRICT_MESSAGE
      [] rule.createRules = "kubectlRule" -> KUBECTL_STRICT_MESSAGE
      [] rule.createRules = "awsCliRule" -> AWS_STRICT_MESSAGE
      [] rule.createRules = "npmRule" -> NPM_STRICT_MESSAGE
      [] rule.createRules = "gitRule" -> GIT_STRICT_MESSAGE

\* Every rule of the generated lists denies with the given reason.
OnlyDenyWith(generated, reason) ==
    \A list \in {"cliRules", "fileRules", "envRules"} \cap DOMAIN generated :
        \A r \in Elements(generated[list]) : r.action = "deny" /\ r.reason = reason

BuiltIn(rule) == \E i \in 1..Len(modalRules) : modalRules[i] = rule

\* C16: for each of the seven built-in modal definitions, strict-mode
\* resolution produces only deny rules (cli and file), each with the override
\* message as its reason when one is supplied and the definition's built-in
\* strict message otherwise.
C16_StrictOnlyDenies ==
    /\ call # Idle /\ call.op = "createRules" /\ call.mode = "strict" =>
          OnlyDenyWith(ret, IF "message" \in DOMAIN call.modalOptions
                            THEN call.modalOptions.message
                            ELSE StrictMessage(call.rule))
    /\ BuildCall /\ Len(call.rulesConfig) = 1 =>
          \A e \in ModalEntries :
              BuiltIn(ruleRegistry[e.ruleId]) /\ ExpectedMode(e) = "strict" =>
                  OnlyDenyWith(ret.config,
                               IF "message" \in DOMAIN EntryModalConfig(e.ruleConfig)
                               THEN EntryModalConfig(e.ruleConfig).message
                               ELSE StrictMessage(ruleRegistry[e.ruleId]))

\* What entry e contributes to the list named: nothing when it is off,
\* unknown or excluded by the platform, else the definition's rules.
Contribution(e, list) ==
    IF ~Contributes(e) THEN <<>>
    ELSE With(IF IsModal(ruleRegistry[e.ruleId])
              THEN createRules(ruleRegistry[e.ruleId], ExpectedMode(e),
                               ModalOptionsOf(EntryModalConfig(e.ruleConfig)))
              ELSE ruleRegistry[e.ruleId],
              LAMBDA definition :
                  IF list \in DOMAIN definition THEN definition[list] ELSE <<>>)

\* The contributions of the call's entries from entry i on, in their order.
RECURSIVE ContributionsFrom(_, _)
ContributionsFrom(list, i) ==
    IF i > Len(call.rulesConfig) THEN <<>>
    ELSE Contribution(call.rulesConfig[i], list) \o ContributionsFrom(list, i + 1)

UnknownEntries ==
    {e \in Elements(call.rulesConfig) :
        ~ConfiguredOff(e.ruleConfig) /\ e.ruleId \notin DOMAIN ruleRegistry}

\* C17: buildConfigFromRules returns for every configuration; an unknown id,
\* an id configured "off" and an id excluded by the target platform contribute
\* no rules, and each list of the result is the contributions of the other
\* entries in the order of the entries.  The unknown ids are warned about.
C17_SkipsAndKeepsOrder ==
    BuildCall =>
        /\ \A list \in {"fileRules", "envRules", "cliRules"} :
              ret.config[list] = ContributionsFrom(list, 1)
        /\ Elements(ret.warnings) = {e.ruleId : e \in UnknownEntries}

\* An unknown id comes first and the entry after it still contributes.
C17_Witness ==
    /\ BuildCall
    /\ Len(call.rulesConfig) = 2
    /\ call.rulesConfig[1] \in UnknownEntries
    /\ Contributes(call.rulesConfig[2])
    /\ ret.config.cliRules # <<>>

-----------------------------------------------------------------------------
(* The rule registry: registerRule, registerRules, getRule, clearRegistry *)

RegistrableRules == {customDeploy, customLocked, customWrangler, modalRules[1]}

RegistrableLists ==
    {modalRules, linuxRules, <<customWrangler, modalRules[1]>>,
     <<customDeploy, customDeploy>>, <<>>}

LookupIds == {"cloudflare/wrangler", "linux/hide-shadow", "custom/unknown"}

InitRegistry ==
    /\ rules = <<>>
    /\ options = BypassUndefined
    /\ injectors = Null
    /\ env = Null
    /\ ruleRegistry = <<>>
    /\ allRulesRegistered = FALSE
    /\ registrars = LoadedRegistrars
    /\ veils = <<>>
    /\ call = Idle
    /\ ret = Null

RegisterRule ==
    /\ call = Idle
    /\ \E rule \in RegistrableRules :
          /\ call' = [op |-> "registerRule", rule |-> rule]
          /\ SetRegistry(registerRule(Registry(ruleRegistry, allRulesRegistered), rule))
    /\ ret' = Null
    /\ UNCHANGED <<rules, options, injectors, env, registrars, veils>>

RegisterRules ==
    /\ call = Idle
    /\ \E ruleList \in RegistrableLists :
          /\ call' = [op |-> "registerRules", rules |-> ruleList]
          /\ SetRegistry(registerRules(Registry(ruleRegistry, allRulesRegistered),
                                       ruleList))
    /\ ret' = Null
    /\ UNCHANGED <<rules, options, injectors, env, registrars, veils>>

GetRule ==
    /\ call = Idle
    /\ \E id \in LookupIds :
          /\ call' = [op |-> "getRule", id |-> id]
          /\ ret' = getRule(Registry(ruleRegistry, allRulesRegistered), id).rule
          /\ SetRegistry(getRule(Registry(ruleRegistry, allRulesRegistered), id).registry)
    /\ UNCHANGED <<rules, options, injectors, env, registrars, veils>>

ClearRegistry ==
    /\ call = Idle
    /\ call' = [op |-> "clearRegistry"]
    /\ SetRegistry(clearRegistry(Registry(ruleRegistry, allRulesRegistered)))
    /\ ret' = Null
    /\ UNCHANGED <<rules, options, injectors, env, registrars, veils>>

NextRegistry == RegisterRule \/ RegisterRules \/ GetRule \/ ClearRegistry \/ Return

SpecRegistry == InitRegistry /\ [][NextRegistry]_vars

-----------------------------------------------------------------------------
(* Claims about the registry (specification SpecRegistry) *)

\* C18: a step that is not clearRegistry keeps every stored id with its
\* definition (registering a present id changes nothing: first registration
\* wins); only clearRegistry removes entries.
C18_RegistryOnlyGrows ==
    [][(call' = Idle \/ call'.op # "clearRegistry") =>
          \A id \in DOMAIN ruleRegistry :
              id \in DOMAIN ruleRegistry' /\ ruleRegistry'[id] = ruleRegistry[id]]_vars

\* registerRule was called with a definition whose id is stored with another
\* definition, which is still the stored one.
C18_Witness ==
    /\ call # Idle /\ call.op = "registerRule"
    /\ call.rule.id \in DOMAIN ruleRegistry
    /\ ruleRegistry[call.rule.id] # call.rule

-----------------------------------------------------------------------------
(* veil.ts: createVeil(config).checkCommand(command) *)

\* The engines' arguments as createVeil passes them: the cli engine is
\* created from the cli rules alone, so its options are the default {}.
createVeil(config) ==
    [fileRules |-> IF "fileRules" \in DOMAIN config THEN config.fileRules ELSE <<>>,
     envRules |-> IF "envRules" \in DOMAIN config THEN config.envRules ELSE <<>>,
     cliRules |-> IF "cliRules" \in DOMAIN config THEN config.cliRules ELSE <<>>,
     injectors |-> IF "injectors" \in DOMAIN config THEN config.injectors ELSE Null,
     cliOptions |-> BypassUndefined,
     interceptedCalls |-> <<>>]

\* Veil.checkCommand: the cli engine's result, and a record in the intercept
\* log (without its timestamp) when the result is a block with a reason.
VeilCheckCommand(veil, command) ==
    With(checkCommand(command, veil.cliRules, veil.cliOptions), LAMBDA result :
        [result |-> result,
         interceptedCalls |->
             IF ~result.ok /\ "reason" \in DOMAIN result /\ result.reason # ""
             THEN Append(veil.interceptedCalls,
                         [type |-> "cli", target |-> command, action |-> "deny",
                          policy |-> "cliRules"])
             ELSE veil.interceptedCalls])

\* A VeilConfig with cli rules and a bypassProtection setting
\* (BypassUndefined: the field is left out).
VeilConfigs ==
    [cliRules : RuleLists(CliRulePool, MaxRules), bypassProtection : BypassConfigs]

InitVeil ==
    /\ rules = <<>>
    /\ options = BypassUndefined
    /\ injectors = Null
    /\ env = Null
    /\ ruleRegistry = <<>>
    /\ allRulesRegistered = FALSE
    /\ registrars = LoadedRegistrars
    /\ veils = <<>>
    /\ call = Idle
    /\ ret = Null

CreateVeilCheckCommand ==
    /\ call = Idle
    /\ \E config \in VeilConfigs, command \in CliCommands :
          /\ call' = [op |-> "createVeil.checkCommand", config |-> config,
                      command |-> command]
          /\ ret' = VeilCheckCommand(createVeil(config), command)
    /\ UNCHANGED created

\* Veil.checkFile: the file engine's result, and a record in the intercept
\* log when the result is a block.
VeilCheckFile(veil, path) ==
    With(checkFile(path, veil.fileRules, veil.injectors), LAMBDA result :
        [result |-> result,
         interceptedCalls |->
             IF ~result.ok
             THEN Append(veil.interceptedCalls,
                         [type |-> "file", target |-> path,
                          action |-> result.details.action,
                          policy |-> result.details.policy])
             ELSE veil.interceptedCalls])

\* presets.ts: configs.flatMap((c) => c.<list> ?? []) for the list named.
RECURSIVE FlatMapRules(_, _)
FlatMapRules(configs, list) ==
    IF configs = <<>> THEN <<>>
    ELSE (IF list \in DOMAIN Head(configs) THEN Head(configs)[list] ELSE <<>>)
         \o FlatMapRules(Tail(configs), list)

\* Object.assign(mergedInjectors, config.injectors) over the configs that
\* have injectors, in their order: a later config's injector replaces an
\* earlier one of the same kind.
RECURSIVE AssignInjectors(_, _)
AssignInjectors(merged, configs) ==
    IF configs = <<>> THEN merged
    ELSE AssignInjectors(IF "injectors" \in DOMAIN Head(configs)
                         THEN Head(configs).injectors @@ merged ELSE merged,
                         Tail(configs))

mergeConfigs(configs) ==
    With([fileRules |-> FlatMapRules(configs, "fileRules"),
          envRules |-> FlatMapRules(configs, "envRules"),
          cliRules |-> FlatMapRules(configs, "cliRules")],
         LAMBDA result :
             IF \E i \in 1..Len(configs) : "injectors" \in DOMAIN configs[i]
             THEN result @@ [injectors |-> AssignInjectors(<<>>, configs)]
             ELSE result)

\* builder.ts: a new VeilBuilder (without packs: rules/categories.ts, which
\* resolves pack names, is not among the sources).
NewVeilBuilder == [rulesConfig |-> <<>>, fileRules |-> <<>>, envRules |-> <<>>,
                   cliRules |-> <<>>]

\* this.rulesConfig[ruleId] = ruleConfig: a present key keeps its place.
SetRuleConfig(rulesConfig, ruleId, ruleConfig) ==
    IF \E i \in 1..Len(rulesConfig) : rulesConfig[i].ruleId = ruleId
    THEN [i \in 1..Len(rulesConfig) |->
             IF rulesConfig[i].ruleId = ruleId
             THEN [ruleId |-> ruleId, ruleConfig |-> ruleConfig]
             ELSE rulesConfig[i]]
    ELSE Append(rulesConfig, [ruleId |-> ruleId, ruleConfig |-> ruleConfig])

\* One call of the fluent interface: useRule, disableRule, denyFile,
\* allowFile (the other adders push onto their list in the same way).
BuilderCall(builder, c) ==
    CASE c.op = "useRule" ->
            [builder EXCEPT !.rulesConfig =
                SetRuleConfig(@, c.ruleId, SeverityConfig(c.severity))]
      [] c.op = "disableRule" ->
            [builder EXCEPT !.rulesConfig =
                SetRuleConfig(@, c.ruleId, SeverityConfig("off"))]
      [] c.op = "denyFile" ->
            [builder EXCEPT !.fileRules =
                Append(@, IF "reason" \in DOMAIN c
                          THEN [match |-> c.pattern, action |-> "deny",
                                reason |-> c.reason]
                          ELSE [match |-> c.pattern, action |-> "deny"])]
      [] c.op = "allowFile" ->
            [builder EXCEPT !.fileRules =
                Append(@, [match |-> c.pattern, action |-> "allow"])]

RECURSIVE BuilderCalls(_, _)
BuilderCalls(builder, calls) ==
    IF calls = <<>> THEN builder
    ELSE BuilderCalls(BuilderCall(builder, Head(calls)), Tail(calls))

\* VeilBuilder.build: the rules of the named rules first, the explicit rules
\* pushed after them; the registry is the one ensureRulesRegistered leaves.
build(builder, processPlatform, reg) ==
    With(ensureRulesRegistered(reg), LAMBDA ensured :
        With(IF Len(builder.rulesConfig) > 0
             THEN buildConfigFromRules(builder.rulesConfig, <<>>, processPlatform,
                                       ensured).config
             ELSE [fileRules |-> <<>>, envRules |-> <<>>, cliRules |-> <<>>],
             LAMBDA rulesBasedConfig :
                 [veil |-> createVeil(
                              [fileRules |-> rulesBasedConfig.fileRules \o builder.fileRules,
                               envRules |-> rulesBasedConfig.envRules \o builder.envRules,
                               cliRules |-> rulesBasedConfig.cliRules \o builder.cliRules]),
                  registry |-> ensured]))

\* The most configs handed to mergeConfigs, and the most calls on a builder.
MaxConfigs == 2
MaxBuilderCalls == 2

\* Configs with at most one file rule, or without the fileRules field.
MergeableConfigs == {<<>>} \cup {[fileRules |-> list] : list \in RuleLists(FileRulePool, 1)}

FluentCalls ==
    {[op |-> "useRule", ruleId |-> "linux/hide-shadow", severity |-> "error"],
     [op |-> "useRule", ruleId |-> "custom/unknown", severity |-> "warn"],
     [op |-> "disableRule", ruleId |-> "linux/hide-shadow"],
     [op |-> "allowFile", pattern |-> StringPattern(PathEtcShadow)],
     [op |-> "denyFile", pattern |-> StringPattern(TextConfig), reason |-> "Generated"],
     [op |-> "denyFile", pattern |-> RegExpPattern(TRUE, PathEtcShadow, TRUE)]}

BuilderPaths == {PathEtcShadow, PathEtcGshadow, PathConfig}

MergeConfigsCheckFile ==
    /\ call = Idle
    /\ \E k \in 1..MaxConfigs :
          \E configs \in [1..k -> MergeableConfigs], path \in Paths :
              /\ call' = [op |-> "mergeConfigs.checkFile", configs |-> configs,
                          path |-> path]
              /\ ret' = VeilCheckFile(createVeil(mergeConfigs(configs)), path)
    /\ UNCHANGED created

BuilderCheckFile ==
    /\ call = Idle
    /\ \E k \in 0..MaxBuilderCalls :
          \E calls \in [1..k -> FluentCalls], path \in BuilderPaths,
             processPlatform \in {"linux", "darwin"} :
              /\ call' = [op |-> "build.checkFile", calls |-> calls, path |-> path,
                          processPlatform |-> processPlatform]
              /\ ret' = VeilCheckFile(
                            build(BuilderCalls(NewVeilBuilder, calls), processPlatform,
                                  Registry(ruleRegistry, allRulesRegistered)).veil,
                            path)
    /\ SetRegistry(ensureRulesRegistered(Registry(ruleRegistry, allRulesRegistered)))
    /\ UNCHANGED <<rules, options, injectors, env, registrars, veils>>

NextVeil == CreateVeilCheckCommand \/ MergeConfigsCheckFile \/ BuilderCheckFile \/ Return

SpecVeil == InitVeil /\ [][NextVeil]_vars

\* C19: the bypassProtection setting of the VeilConfig governs the instance's
\* cli checks: createVeil(config).checkCommand(raw) is the result of a cli
\* engine created with that setting (false: the trimmed raw command only; an
\* options object: exactly the transformations it sets to false are off).
C19_VeilBypassSetting ==
    call # Idle /\ call.op = "createVeil.checkCommand" =>
        ret.result = checkCommand(call.command, call.config.cliRules,
                                  call.config.bypassProtection)

\* The configs of a mergeConfigs call that hold a file rule matching the path.
MatchingConfigs ==
    {i \in 1..Len(call.configs) :
        /\ "fileRules" \in DOMAIN call.configs[i]
        /\ \E r \in Elements(call.configs[i].fileRules) : matchesPattern(call.path, r.match)}

\* The rules the builder's explicit calls (denyFile, allowFile) added.
ExplicitFileRules == BuilderCalls(NewVeilBuilder, call.calls).fileRules

\* Two results of checkFile decide alike: both pass, or both block with the
\* same action.
SameDecision(a, b) ==
    /\ a.ok = b.ok
    /\ ~a.ok => a.details.action = b.details.action

\* C20: in a rule list assembled from several sources the source documented
\* as taking priority decides: after mergeConfigs, when rules of two configs
\* match the path, the result is the one the latest such config gives; after
\* VeilBuilder.build, when an explicit rule matches the path, the result is
\* the one the explicit rules give.
C20_PrioritySourceDecides ==
    /\ call # Idle /\ call.op = "mergeConfigs.checkFile"
          /\ Cardinality(MatchingConfigs) >= 2 =>
          SameDecision(ret.result,
                       checkFile(call.path,
                                 call.configs[SetMax(MatchingConfigs)].fileRules, Null))
    /\ call # Idle /\ call.op = "build.checkFile"
          /\ (\E r \in Elements(ExplicitFileRules) : matchesPattern(call.path, r.match)) =>
          SameDecision(ret.result, checkFile(call.path, ExplicitFileRules, Null))

-----------------------------------------------------------------------------
(* veil.ts: Veil instances, their intercept logs and scope *)

\* Veil.checkDirectory: the file engine's result, and a record in the
\* intercept log when the result is a block.
VeilCheckDirectory(veil, path) ==
    With(checkDirectory(path, veil.fileRules, veil.injectors), LAMBDA result :
        [result |-> result,
         interceptedCalls |->
             IF ~result.ok
             THEN Append(veil.interceptedCalls,
                         [type |-> "directory", target |-> path,
                          action |-> result.details.action,
                          policy |-> result.details.policy])
             ELSE veil.interceptedCalls])

\* Veil.getEnv: the env engine's result, and a record in the intercept log
\* when the result is a block.
VeilGetEnv(veil, key, processEnv) ==
    With(getEnv(key, veil.envRules, veil.injectors, processEnv), LAMBDA result :
        [result |-> result,
         interceptedCalls |->
             IF ~result.ok
             THEN Append(veil.interceptedCalls,
                         [type |-> "env", target |-> key,
                          action |-> result.details.action,
                          policy |-> result.details.policy])
             ELSE veil.interceptedCalls])

\* [...interceptedCalls]: a new array holding the records of the log;
\* sameArray tells whether the array handed out is the log itself.
getInterceptedCalls(veil) ==
    [value |-> veil.interceptedCalls, sameArray |-> FALSE]

\* Veil.getContext
getContext(veil, processEnv) ==
    [visibleFiles |-> <<>>,
     visibleDirectories |-> <<>>,
     visibleEnv |-> getVisibleEnv(veil.envRules, processEnv),
     value |-> veil.interceptedCalls,
     sameArray |-> FALSE]

\* interceptedCalls.length = 0
clearInterceptedCalls(veil) == [veil EXCEPT !.interceptedCalls = <<>>]

\* policy.<list> ?? []
PolicyList(policy, list) == IF list \in DOMAIN policy THEN policy[list] ELSE <<>>

\* A scope whose lists are the parent's rules followed by the policy's.
scopeParentFirst(veil, policy) ==
    createVeil(
        With([fileRules |-> veil.fileRules \o PolicyList(policy, "fileRules"),
              envRules |-> veil.envRules \o PolicyList(policy, "envRules"),
              cliRules |-> veil.cliRules \o PolicyList(policy, "cliRules")],
             LAMBDA scopedConfig :
                 IF veil.injectors # Null
                 THEN scopedConfig @@ [injectors |-> veil.injectors]
                 ELSE scopedConfig))

\* Veil.scope: createVeil of the policy's rules followed by this instance's
\* rules, with this instance's injectors.
scope(veil, policy) ==
    createVeil(
        With([fileRules |-> PolicyList(policy, "fileRules") \o veil.fileRules,
              envRules |-> PolicyList(policy, "envRules") \o veil.envRules,
              cliRules |-> PolicyList(policy, "cliRules") \o veil.cliRules],
             LAMBDA scopedConfig :
                 IF veil.injectors # Null
                 THEN scopedConfig @@ [injectors |-> veil.injectors]
                 ELSE scopedConfig))

\* The configurations of the first instance.
InstanceConfigs ==
    {[fileRules |-> <<[match |-> StringPattern(TextSecrets), action |-> "deny",
                       reason |-> "Sensitive data"]>>,
      envRules |-> <<[match |-> RegExpPattern(TRUE, TextApi, FALSE), action |-> "deny",
                      reason |-> "API keys are hidden"]>>,
      cliRules |-> <<[match |-> RegExpPattern(TRUE, TextRmRf, FALSE), action |-> "deny",
                      reason |-> "Dangerous command",
                      safeAlternatives |-> <<"rm -i", "trash">>],
                     [match |-> RegExpPattern(TRUE, CmdGitPush, FALSE), action |-> "deny",
                      reason |-> ""]>>],
     [fileRules |-> <<[match |-> RegExpPattern(TRUE, TextSrc, FALSE), action |-> "allow"],
                      [match |-> StringPattern(TextSecrets), action |-> "mask",
                       replacement |-> TextHidden]>>,
      cliRules |-> <<[match |-> RegExpPattern(TRUE, TextGit, FALSE), action |-> "mask",
                      safeAlternatives |-> <<"git status">>]>>,
      injectors |-> [directories |-> [p \in Paths |->
                        IF p = PathSrcConfig THEN <<PathSrcIndex>> ELSE JsNull]]]}

\* The policies handed to scope.
ScopedPolicies ==
    {[fileRules |-> <<[match |-> StringPattern(TextSecrets), action |-> "allow"]>>],
     [fileRules |-> <<[match |-> RegExpPattern(TRUE, TextSrc, FALSE), action |-> "deny"]>>,
      cliRules |-> <<[match |-> StringPattern(TextPush), action |-> "allow",
                      reason |-> ""]>>,
      envRules |-> <<[match |-> RegExpPattern(FALSE, TextSecret, FALSE),
                      action |-> "mask"]>>]}

InstancePaths == {PathSecretsKey, PathSrcIndex, PathSrcConfig}
InstanceKeys == {KeyApiSecret, KeyHome}
InstanceCommands == {CmdGitPush, CmdRmRf, ShellWrap(0, CmdGitPush)}

\* The most instances in use.
MaxInstances == 2

\* The most records held by the intercept logs of all instances together.
MaxLog == 2

RECURSIVE TotalLog(_)
TotalLog(instances) ==
    IF instances = <<>> THEN 0
    ELSE Len(Head(instances).interceptedCalls) + TotalLog(Tail(instances))

InitInstance ==
    /\ rules = <<>>
    /\ options = BypassUndefined
    /\ injectors = Null
    /\ env = [k \in EnvKeys |-> IF k = KeyApiSecret THEN SampleValue(5) ELSE JsUndefined]
    /\ ruleRegistry = <<>>
    /\ allRulesRegistered = FALSE
    /\ registrars = LoadedRegistrars
    /\ \E config \in InstanceConfigs : veils = <<createVeil(config)>>
    /\ call = Idle
    /\ ret = Null

\* The step of a check wrapper on instance i: outcome holds the engine's
\* result and the log after the call.
InstanceCheck(i, op, target, outcome) ==
    /\ call' = [op |-> op, veil |-> i, target |-> target]
    /\ ret' = outcome.result
    /\ veils' = [veils EXCEPT ![i].interceptedCalls = outcome.interceptedCalls]
    /\ UNCHANGED <<rules, options, injectors, env, ruleRegistry, allRulesRegistered,
                   registrars>>

InstanceCheckFile ==
    /\ call = Idle /\ TotalLog(veils) < MaxLog
    /\ \E i \in 1..Len(veils), path \in InstancePaths :
          InstanceCheck(i, "checkFile", path, VeilCheckFile(veils[i], path))

InstanceCheckDirectory ==
    /\ call = Idle /\ TotalLog(veils) < MaxLog
    /\ \E i \in 1..Len(veils), path \in InstancePaths :
          InstanceCheck(i, "checkDirectory", path, VeilCheckDirectory(veils[i], path))

InstanceGetEnv ==
    /\ call = Idle /\ TotalLog(veils) < MaxLog
    /\ \E i \in 1..Len(veils), key \in InstanceKeys :
          InstanceCheck(i, "getEnv", key, VeilGetEnv(veils[i], key, env))

InstanceCheckCommand ==
    /\ call = Idle /\ TotalLog(veils) < MaxLog
    /\ \E i \in 1..Len(veils), command \in InstanceCommands :
          InstanceCheck(i, "checkCommand", command, VeilCheckCommand(veils[i], command))

GetInterceptedCalls ==
    /\ call = Idle
    /\ \E i \in 1..Len(veils) :
          /\ call' = [op |-> "getInterceptedCalls", veil |-> i]
          /\ ret' = getInterceptedCalls(veils[i])
    /\ UNCHANGED created

GetContext ==
    /\ call = Idle
    /\ \E i \in 1..Len(veils) :
          /\ call' = [op |-> "getContext", veil |-> i]
          /\ ret' = getContext(veils[i], env)
    /\ UNCHANGED created

\* The record a caller pushes onto a list it was handed.
CallerRecord ==
    [type |-> "file", target |-> PathSrcIndex, action |-> "deny", policy |-> "caller"]

\* The caller changes the list it was handed (a push, or length = 0); the
\* log changes with it when the list is the log itself.
ChangeReturnedList ==
    /\ call # Idle /\ call.op \in {"getInterceptedCalls", "getContext"}
    /\ \E changed \in {<<>>, Append(ret.value, CallerRecord)} :
          /\ ret' = [ret EXCEPT !.value = changed]
          /\ veils' = IF ret.sameArray
                      THEN [veils EXCEPT ![call.veil].interceptedCalls = changed]
                      ELSE veils
    /\ call' = [op |-> "changeReturnedList", veil |-> call.veil]
    /\ UNCHANGED <<rules, options, injectors, env, ruleRegistry, allRulesRegistered,
                   registrars>>

ClearInterceptedCalls ==
    /\ call = Idle
    /\ \E i \in 1..Len(veils) :
          /\ call' = [op |-> "clearInterceptedCalls", veil |-> i]
          /\ veils' = [veils EXCEPT ![i] = clearInterceptedCalls(veils[i])]
    /\ ret' = Null
    /\ UNCHANGED <<rules, options, injectors, env, ruleRegistry, allRulesRegistered,
                   registrars>>

Scope ==
    /\ call = Idle /\ Len(veils) < MaxInstances
    /\ \E i \in 1..Len(veils), policy \in ScopedPolicies :
          /\ call' = [op |-> "scope", veil |-> i, policy |-> policy]
          /\ veils' = Append(veils, scope(veils[i], policy))
    /\ ret' = Null
    /\ UNCHANGED <<rules, options, injectors, env, ruleRegistry, allRulesRegistered,
                   registrars>>

NextInstance ==
    \/ InstanceCheckFile \/ InstanceCheckDirectory \/ InstanceGetEnv
    \/ InstanceCheckCommand \/ GetInterceptedCalls \/ GetContext
    \/ ChangeReturnedList \/ ClearInterceptedCalls \/ Scope \/ Return

SpecInstance == InitInstance /\ [][NextInstance]_vars

\* Some rule of ruleList matches target.
SomeRuleMatches(target, ruleList) ==
    \E k \in 1..Len(ruleList) : matchesPattern(target, ruleList[k].match)

\* The rule lists and the injectors of an instance: what its decisions
\* depend on.
Deciding(veil) ==
    [fileRules |-> veil.fileRules, envRules |-> veil.envRules,
     cliRules |-> veil.cliRules, injectors |-> veil.injectors]

\* An instance made of the policy's rules alone, with the injectors of veil.
PolicyAlone(veil, policy) ==
    [veil EXCEPT !.fileRules = PolicyList(policy, "fileRules"),
                 !.envRules = PolicyList(policy, "envRules"),
                 !.cliRules = PolicyList(policy, "cliRules")]

\* The instance scope made has the policy's rules followed by the parent's
\* rules, the parent's injectors and an empty log, the instances that were
\* there are as they were, and on every target a rule of the policy matches
\* the new instance decides as the policy's rules alone decide.
ScopeStep ==
    (call = Idle /\ call'.op = "scope") =>
        LET parent == veils[call'.veil]
            policy == call'.policy
            scoped == veils'[Len(veils')]
            alone == PolicyAlone(scoped, policy)
        IN  /\ Len(veils') = Len(veils) + 1
            /\ SubSeq(veils', 1, Len(veils)) = veils
            /\ scoped.fileRules = PolicyList(policy, "fileRules") \o parent.fileRules
            /\ scoped.envRules = PolicyList(policy, "envRules") \o parent.envRules
            /\ scoped.cliRules = PolicyList(policy, "cliRules") \o parent.cliRules
            /\ scoped.injectors = parent.injectors
            /\ scoped.interceptedCalls = <<>>
            /\ \A path \in InstancePaths :
                  SomeRuleMatches(path, alone.fileRules) =>
                      /\ VeilCheckFile(scoped, path) = VeilCheckFile(alone, path)
                      /\ VeilCheckDirectory(scoped, path) = VeilCheckDirectory(alone, path)
            /\ \A key \in InstanceKeys :
                  SomeRuleMatches(key, alone.envRules) =>
                      VeilGetEnv(scoped, key, env) = VeilGetEnv(alone, key, env)
            /\ \A command \in InstanceCommands :
                  SomeRuleMatches(Trim(command), alone.cliRules) =>
                      VeilCheckCommand(scoped, command) = VeilCheckCommand(alone, command)

\* A call on one instance leaves every other instance as it was, and leaves
\* the rule lists and injectors of every instance as they were.
UseStep ==
    (call = Idle /\ call' # Idle /\ call'.op # "scope") =>
        /\ Len(veils') = Len(veils)
        /\ \A j \in 1..Len(veils) :
              /\ Deciding(veils'[j]) = Deciding(veils[j])
              /\ j # call'.veil => veils'[j] = veils[j]

\* C21: veil.scope(policy) makes a new instance whose rule lists are the
\* policy's rules followed by the parent's rules, so that a rule of the
\* policy decides over a parent rule matching the same target; the new
\* instance starts with an empty log, and making it and calling it changes
\* neither the parent's rule lists (its decisions) nor the parent's log.
C21_ScopedInstance == [][ScopeStep /\ UseStep]_vars

\* A check on a scoped instance was decided otherwise than its parent decides
\* it, while the parent's log holds a record and has not changed.
C21_Witness ==
    /\ Len(veils) = 2
    /\ call # Idle /\ call.op = "checkFile" /\ call.veil = 2
    /\ ret.ok # VeilCheckFile(veils[1], call.target).result.ok
    /\ veils[1].interceptedCalls # <<>>

-----------------------------------------------------------------------------
(* normalize.ts: isWrappedCommand and describeNormalization on disguises *)

\* isWrappedCommand: a shell wrapper pattern, an eval pattern or the
\* absolute path pattern matches the trimmed command.
isWrappedCommand(command) ==
    With(Trim(command), LAMBDA trimmed :
        \/ ShellWrapperQuoted(trimmed).matched \/ ShellWrapperUnquoted(trimmed).matched
        \/ EvalQuoted(trimmed).matched \/ EvalUnquoted(trimmed).matched
        \/ ABSOLUTE_PATH_PATTERN(trimmed) > 0)

\* The four kinds of wrapper, in the order of the stages that undo them.
WrapperKinds == <<"shell", "eval", "path", "runner">>

\* One wrapper of a kind around inner.
Wrap(kind, inner) ==
    CASE kind = 1 -> ShellWrap(0, inner)
      [] kind = 2 -> EvalWrap(1, inner)
      [] kind = 3 -> PathWrap(1, inner)
      [] OTHER -> RunnerWrap(1, inner)

\* The wrappers of kinds ws around inner, the first of ws outermost.
RECURSIVE Nested(_, _)
Nested(ws, inner) ==
    IF ws = <<>> THEN inner ELSE Wrap(Head(ws), Nested(Tail(ws), inner))

\* The most wrappers of a nested disguise.
MaxWrappers == 3

\* Every nesting of at most MaxWrappers wrappers, in any order.
Nestings == UNION {[1..k -> 1..4] : k \in 0..MaxWrappers}

\* The raw commands handed to isWrappedCommand and describeNormalization.
WrappedCommands ==
    OddCommands \cup CliCommands
    \cup {Nested(ws, CmdGitPush) : ws \in Nestings}
    \cup {RunnerWrap(r, CmdWranglerDeploy) : r \in 1..4}

InitWrapped ==
    /\ rules = <<>>
    /\ options = DEFAULT_OPTIONS
    /\ injectors = Null
    /\ env = Null
    /\ ruleRegistry = <<>>
    /\ allRulesRegistered = FALSE
    /\ registrars = LoadedRegistrars
    /\ veils = <<>>
    /\ call = Idle
    /\ ret = Null

IsWrappedCommand ==
    /\ call = Idle
    /\ \E command \in WrappedCommands :
          /\ call' = [op |-> "isWrappedCommand", command |-> command]
          /\ ret' = [value |-> isWrappedCommand(command)]
    /\ UNCHANGED created

\* The variants of a command, as a set.
VariantSet(command, given) ==
    With(normalizeCommand(command, given), LAMBDA variants :
        {variants[i] : i \in 1..Len(variants)})

\* describeNormalization(original, normalized) for a variant of original,
\* for original itself and for an unrelated text.
DescribeNormalization ==
    /\ call = Idle
    /\ \E original \in WrappedCommands :
          \E normalized \in VariantSet(original, options) \cup {original, CmdRmRf} :
              /\ call' = [op |-> "describeNormalization", original |-> original,
                          normalized |-> normalized]
              /\ ret' = describeNormalization(original, normalized)
    /\ UNCHANGED created

\* normalizeCommand with default options on a nested disguise; the call
\* keeps how the command was built.
NormalizeNested ==
    /\ call = Idle
    /\ \E ws \in Nestings, inner \in InnerCommands :
          /\ call' = [op |-> "normalizeCommand", command |-> Nested(ws, inner),
                      wrappers |-> ws, inner |-> inner]
          /\ ret' = normalizeCommand(Nested(ws, inner), options)
    /\ UNCHANGED created

NextWrapped == IsWrappedCommand \/ DescribeNormalization \/ NormalizeNested \/ Return

SpecWrapped == InitWrapped /\ [][NextWrapped]_vars

\* One of the four transformation patterns matches the trimmed command.
SomePatternMatches(command) ==
    With(Trim(command), LAMBDA trimmed :
        \/ SHELL_WRAPPER_PATTERNS(trimmed).matched
        \/ EVAL_PATTERNS(trimmed).matched
        \/ ABSOLUTE_PATH_PATTERN(trimmed) > 0
        \/ PACKAGE_RUNNER_PATTERN(trimmed) > 0)

\* C22: isWrappedCommand(raw) is true exactly when one of the four
\* transformation patterns (shell wrapper, eval, absolute path, package
\* runner) matches the trimmed raw command, and so it is true for every
\* command to which normalizeCommand with default options gives more than
\* one variant.
C22_WrappedIffPatternMatches ==
    (call # Idle /\ call.op = "isWrappedCommand") =>
        /\ ret.value = SomePatternMatches(call.command)
        /\ Len(normalizeCommand(call.command, DEFAULT_OPTIONS)) > 1 => ret.value

\* The state of normalizeCommand with default options before its first
\* stage and after each of its four stages.
StagesOf(command) ==
    With([variants |-> addVariant(<<>>, command), current |-> Trim(command)], LAMBDA s0 :
    With(UnwrapShells(s0, 0), LAMBDA s1 :
    With(UnwrapEval(s1), LAMBDA s2 :
    With(StripPaths(s2), LAMBDA s3 :
        <<s0, s1, s2, s3, StripPackageRunners(s3)>>))))

\* Stage k (1: shells, 2: eval, 3: path, 4: runner) fired: its pattern
\* matched the text the stage was entered with.
Fired(stages, k) ==
    CASE k = 1 -> SHELL_WRAPPER_PATTERNS(stages[1].current).matched
      [] k = 2 -> EVAL_PATTERNS(stages[2].current).matched
      [] k = 3 -> ABSOLUTE_PATH_PATTERN(stages[3].current) > 0
      [] OTHER -> PACKAGE_RUNNER_PATTERN(stages[4].current) > 0

\* The text stage k left behind, trimmed as addVariant trims it.
StageOutput(stages, k) ==
    IF k < 4 THEN Trim(stages[k + 1].current)
    ELSE Trim(Drop(stages[4].current, PACKAGE_RUNNER_PATTERN(stages[4].current)))

DescriptionNames ==
    <<"subshell wrapper stripped", "eval wrapper stripped",
      "absolute path stripped", "package runner stripped">>

\* The names of the stages up to k that fired, joined as the description
\* joins them.
FiredNames(stages, k) ==
    With(SelectSeq(<<1, 2, 3, 4>>, LAMBDA j : j <= k /\ Fired(stages, j)), LAMBDA fired :
        Join([i \in 1..Len(fired) |-> DescriptionNames[fired[i]]]))

\* C23: describeNormalization(raw, v) is null exactly when raw and v are
\* equal after trimming, and for a variant v that a stage of
\* normalizeCommand(raw) left behind, other than the trimmed raw command,
\* the description names exactly the transformations that fired on the way
\* from raw to v, none missing and none extra.
C23_DescriptionNamesWhatFired ==
    (call # Idle /\ call.op = "describeNormalization") =>
        /\ (ret = Null) <=> (Trim(call.original) = Trim(call.normalized))
        /\ With(StagesOf(call.original), LAMBDA stages :
               \A k \in 1..4 :
                   (/\ Fired(stages, k)
                    /\ call.normalized = StageOutput(stages, k)
                    /\ call.normalized # Trim(call.original))
                   => ret.text = FiredNames(stages, k))

\* The wrappers follow the order of the stages: shell wrappers outermost,
\* then at most one eval, one path prefix and one runner prefix.
StageOrdered(ws) ==
    \A i, j \in 1..Len(ws) : i < j => (ws[i] < ws[j] \/ (ws[i] = 1 /\ ws[j] = 1))

\* The inner command of the call is one of the variants returned.
InnerSurfaces ==
    \E i \in 1..Len(ret) : ret[i] = call.inner

NestedCall ==
    call # Idle /\ call.op = "normalizeCommand" /\ "wrappers" \in DOMAIN call

\* C30 (as claimed): whatever the nesting order of at most three wrappers
\* around an inner command that triggers no transformation, the inner
\* command is one of the variants of normalizeCommand with default options.
C30_AnyOrderSurfaces == NestedCall => InnerSurfaces

\* C30: when the wrappers are nested in the order of the stages (shell
\* wrappers outermost, then eval, then an absolute path, then a package
\* runner), the inner command is one of the variants of normalizeCommand
\* with default options.
C30_StageOrderSurfaces == (NestedCall /\ StageOrdered(call.wrappers)) => InnerSurfaces

\* A shell wrapper around an eval around an absolute path was undone.
C30_Witness ==
    NestedCall /\ call.wrappers = <<1, 2, 3>> /\ InnerSurfaces

-----------------------------------------------------------------------------
(* matching.ts: applyMask applied to its own result *)

\* C24: the default mask is idempotent: when no replacement is configured,
\* masking the result of applyMask(value) again gives that result.
C24_DefaultMaskIdempotent ==
    (call # Idle /\ call.op = "applyMask" /\ call.replacement = JsUndefined) =>
        applyMask(ret, JsUndefined) = ret

\* A value of more than ten characters was masked without a replacement,
\* and the mask differs from the value.
C24_Witness ==
    /\ call # Idle /\ call.op = "applyMask" /\ call.replacement = JsUndefined
    /\ Len(call.value) > 10 /\ ret # call.value

-----------------------------------------------------------------------------
(* veil.ts: the intercept log over sequences of calls on the instances *)

CheckOps == {"checkFile", "checkDirectory", "getEnv", "checkCommand"}

\* The kind a check wrapper logs under.
KindOf(op) ==
    CASE op = "checkFile" -> "file"
      [] op = "checkDirectory" -> "directory"
      [] op = "getEnv" -> "env"
      [] OTHER -> "cli"

\* The log of instance i before and after the step.
LogBefore(i) == veils[i].interceptedCalls
LogAfter(i) == veils'[i].interceptedCalls

\* What a step does to the log of the instance it is a call on.
LogStep ==
    /\ (call = Idle /\ call'.op \in CheckOps) =>
          LET i == call'.veil
          IN  IF ret'.ok THEN LogAfter(i) = LogBefore(i)
              ELSE /\ Len(LogAfter(i)) = Len(LogBefore(i)) + 1
                   /\ SubSeq(LogAfter(i), 1, Len(LogBefore(i))) = LogBefore(i)
                   /\ LogAfter(i)[Len(LogAfter(i))].type = KindOf(call'.op)
                   /\ LogAfter(i)[Len(LogAfter(i))].target = call'.target
    /\ (call = Idle /\ call'.op = "clearInterceptedCalls") =>
          LogAfter(call'.veil) = <<>>
    /\ (call = Idle /\ call'.op \in {"getInterceptedCalls", "getContext"}) =>
          /\ ret'.value = LogBefore(call'.veil)
          /\ LogAfter(call'.veil) = LogBefore(call'.veil)
    /\ (call'.op = "changeReturnedList") =>
          LogAfter(call'.veil) = LogBefore(call'.veil)

\* C25: over any sequence of checkFile, checkDirectory, getEnv,
\* checkCommand, getInterceptedCalls, getContext and clearInterceptedCalls
\* calls on an instance, its intercept log holds, in call order, exactly one
\* record for each blocked check made since the last clear and none for a
\* check that returned ok: a blocked check appends one record of its kind
\* and target, an ok check leaves the log as it is, clearInterceptedCalls
\* empties it, and the lists handed out are copies, so that a caller's
\* change to a list it was handed leaves the log as it is.
C25_LogHoldsBlockedChecks == [][LogStep]_vars

\* The record a blocked check leaves last in the log names the rule that
\* decided: the first rule matching the first variant some rule matches
\* (for file, directory and env checks the target is the only variant).
RecordStep ==
    (call = Idle /\ call'.op \in CheckOps /\ ~ret'.ok) =>
        LET i == call'.veil
            list == CASE call'.op \in {"checkFile", "checkDirectory"} -> "fileRules"
                      [] call'.op = "getEnv" -> "envRules"
                      [] OTHER -> "cliRules"
            ruleList == veils[i][list]
            variants == IF call'.op = "checkCommand"
                        THEN Variants(call'.target, veils[i].cliOptions)
                        ELSE <<call'.target>>
            v == SetMin({n \in 1..Len(variants) : SomeRuleMatches(variants[n], ruleList)})
            k == SetMin({n \in 1..Len(ruleList) :
                            matchesPattern(variants[v], ruleList[n].match)})
        IN  /\ LogAfter(i) # <<>>
            /\ LogAfter(i)[Len(LogAfter(i))] =
                  [type |-> KindOf(call'.op), target |-> call'.target,
                   action |-> ruleList[k].action,
                   policy |-> list \o "[" \o ToString(k - 1) \o "]"]

\* C29: every record of an intercept log carries the kind and the target of
\* the blocked check and the action and the policy reference (list name and
\* index) of the rule that caused the block, for file, directory, env and
\* cli checks, a cli block caused by a mask rule included.
C29_RecordNamesDecidingRule == [][RecordStep]_vars

-----------------------------------------------------------------------------
(* rules/registry.ts: lazy registration of the built-in rules *)

\* markPlatformRulesRegistered: allRulesRegistered = true
markPlatformRulesRegistered(reg) == [reg EXCEPT !.allRulesRegistered = TRUE]

\* The registry module as it is loaded, before platform.ts has run.
InitAutoRegister ==
    /\ rules = <<>>
    /\ options = BypassUndefined
    /\ injectors = Null
    /\ env = Null
    /\ ruleRegistry = <<>>
    /\ allRulesRegistered = FALSE
    /\ registrars = [platform |-> FALSE, modal |-> FALSE]
    /\ veils = <<>>
    /\ call = Idle
    /\ ret = Null

\* setPlatformRegistrar(registerPlatformRules)
SetPlatformRegistrar ==
    /\ call = Idle
    /\ call' = [op |-> "setPlatformRegistrar"]
    /\ registrars' = [registrars EXCEPT !.platform = TRUE]
    /\ ret' = Null
    /\ UNCHANGED <<rules, options, injectors, env, ruleRegistry, allRulesRegistered, veils>>

\* setModalRegistrar(registerModalRules)
SetModalRegistrar ==
    /\ call = Idle
    /\ call' = [op |-> "setModalRegistrar"]
    /\ registrars' = [registrars EXCEPT !.modal = TRUE]
    /\ ret' = Null
    /\ UNCHANGED <<rules, options, injectors, env, ruleRegistry, allRulesRegistered, veils>>

MarkPlatformRulesRegistered ==
    /\ call = Idle
    /\ call' = [op |-> "markPlatformRulesRegistered"]
    /\ SetRegistry(markPlatformRulesRegistered(Registry(ruleRegistry, allRulesRegistered)))
    /\ ret' = Null
    /\ UNCHANGED <<rules, options, injectors, env, registrars, veils>>

EnsureRulesRegistered ==
    /\ call = Idle
    /\ call' = [op |-> "ensureRulesRegistered"]
    /\ SetRegistry(ensureRulesRegistered(Registry(ruleRegistry, allRulesRegistered)))
    /\ ret' = Null
    /\ UNCHANGED <<rules, options, injectors, env, registrars, veils>>

\* areRulesRegistered()
AreRulesRegistered ==
    /\ call = Idle
    /\ call' = [op |-> "areRulesRegistered"]
    /\ ret' = [value |-> allRulesRegistered]
    /\ UNCHANGED created

NextAutoRegister ==
    \/ SetPlatformRegistrar \/ SetModalRegistrar \/ MarkPlatformRulesRegistered
    \/ EnsureRulesRegistered \/ AreRulesRegistered
    \/ RegisterRule \/ RegisterRules \/ GetRule \/ ClearRegistry \/ Return

SpecAutoRegister == InitAutoRegister /\ [][NextAutoRegister]_vars

\* The ids of the built-in rules: the platform rules and the modal rules.
BuiltInIds ==
    {r.id : r \in Elements(windowsRules) \cup Elements(darwinRules)
                  \cup Elements(linuxRules) \cup Elements(crossPlatformRules)
                  \cup Elements(modalRules)}

\* C26: in every state reached by setPlatformRegistrar, setModalRegistrar,
\* registerRule(s), clearRegistry, markPlatformRulesRegistered,
\* ensureRulesRegistered and lookups, areRulesRegistered() = true implies
\* that every built-in rule, platform and modal, is stored, so that getRule
\* of a built-in id does not return undefined.
C26_RegisteredMeansStored ==
    /\ allRulesRegistered => BuiltInIds \subseteq DOMAIN ruleRegistry
    /\ (call # Idle /\ call.op = "getRule" /\ call.id \in BuiltInIds) => ret # Null

-----------------------------------------------------------------------------
(* The cli engine on disguised commands, with and without bypass protection *)

TextNothing == <<>>

\* The rules a cli rule list is drawn from: rules that match an inner
\* command, rules that match a wrapper, and a rule that matches every text.
DisguiseRulePool ==
    {[match |-> RegExpPattern(TRUE, TextRmRf, FALSE), action |-> "deny",
      reason |-> "Dangerous command"],
     [match |-> RegExpPattern(TRUE, CmdGitPush, FALSE), action |-> "deny"],
     [match |-> StringPattern(TextBash), action |-> "allow"],
     [match |-> RegExpPattern(TRUE, RunnerNpx, FALSE), action |-> "allow",
      reason |-> "Package runners are fine"],
     [match |-> RegExpPattern(TRUE, TextGit, FALSE), action |-> "mask",
      safeAlternatives |-> <<"git status">>],
     [match |-> RegExpPattern(FALSE, TextNothing, FALSE), action |-> "deny",
      reason |-> "Everything is blocked"],
     [match |-> RegExpPattern(TRUE, TextWrangler, FALSE), action |-> "rewrite",
      replacement |-> TextEchoBlocked]}

\* The commands that get disguised: the plain ones and one that is a shell
\* wrapper already.
DisguisedInner == InnerCommands \cup {ShellWrap(1, CmdGitPush)}

\* The single-wrapper disguises of c: <shell> -c "c", eval "c", c behind an
\* absolute path, c behind each package runner.
SingleWrappers(c) ==
    {ShellWrap(0, c), EvalWrap(1, c), PathWrap(1, c)} \cup {RunnerWrap(r, c) : r \in 1..4}

InitDisguise ==
    /\ rules \in RuleLists(DisguiseRulePool, MaxRules)
    /\ options \in {BypassBoolean(FALSE), BypassBoolean(TRUE), BypassUndefined}
    /\ injectors = Null
    /\ env = Null
    /\ ruleRegistry = <<>>
    /\ allRulesRegistered = FALSE
    /\ registrars = LoadedRegistrars
    /\ veils = <<>>
    /\ call = Idle
    /\ ret = Null

\* checkCommand on a single-wrapper disguise; the call keeps the command
\* that was disguised.
CheckDisguise ==
    /\ call = Idle
    /\ \E inner \in DisguisedInner : \E command \in SingleWrappers(inner) :
          /\ call' = [op |-> "checkCommand", command |-> command, inner |-> inner]
          /\ ret' = checkCommand(command, rules, options)
    /\ UNCHANGED created

NextDisguise == CheckDisguise \/ CheckCommand \/ Return

SpecDisguise == InitDisguise /\ [][NextDisguise]_vars

\* C27: with bypass protection enabled, whatever the rule list, when
\* checkCommand(c) is blocked, checkCommand is blocked for each
\* single-wrapper disguise of c as well.
C27_DisguiseStaysBlocked ==
    (/\ call # Idle /\ call.op = "checkCommand" /\ "inner" \in DOMAIN call
     /\ BypassEnabled
     /\ ~checkCommand(call.inner, rules, options).ok)
    => ~ret.ok

\* The command of the call is blocked by an engine with the same rules and
\* bypassProtection = false.
BlockedWithoutProtection ==
    ~checkCommand(call.command, rules, BypassBoolean(FALSE)).ok

\* C28 (as claimed): whatever the rule list and the raw command, empty and
\* whitespace-only commands included, a command blocked by an engine created
\* with bypassProtection = false is blocked by an engine with the same rules
\* and bypass protection enabled.
C28_ProtectionKeepsBlock ==
    (/\ call # Idle /\ call.op = "checkCommand"
     /\ BypassEnabled
     /\ BlockedWithoutProtection)
    => ~ret.ok

\* C28: whatever the rule list, a raw command that is not empty or
\* whitespace-only and is blocked by an engine created with
\* bypassProtection = false is blocked by an engine with the same rules and
\* bypass protection enabled.
C28_ProtectionKeepsBlockOfNonEmpty ==
    (/\ call # Idle /\ call.op = "checkCommand"
     /\ BypassEnabled
     /\ Trim(call.command) # <<>>
     /\ BlockedWithoutProtection)
    => ~ret.ok

\* A wrapped command that the raw text alone gets blocked was checked with
\* bypass protection enabled, where it has more than one variant.
C28_Witness ==
    /\ call # Idle /\ call.op = "checkCommand"
    /\ BypassEnabled
    /\ Len(Variants(call.command, options)) > 1
    /\ BlockedWithoutProtection
    /\ ~ret.ok

====
